---- MODULE Spec2Model ----
(***************************************************************************)
(* Model of pyrobench's benchmark comparison engine (package bench):       *)
(* Benchmark.Compare with its teardown registry, the errgroup-bounded      *)
(* compile/list phase, compareResult and the sequential benchmark phase.   *)
(***************************************************************************)
EXTENDS Integers, Sequences, FiniteSets, TLC

\* ------------------------------------------------------------------------
\* Bounds of the model
\* ------------------------------------------------------------------------
\* packages over both revisions in the concurrency specification
MaxPkgs == 5
\* packages with test files over both revisions in the concurrency
\* specification
MaxTested == 2
\* tasks calling cleaner.add at the same time in the registration
\* specification
MaxAdders == 3
\* calls of addResult in the result-merging specification
MaxCalls == 2
\* reports sent on the report channel in the reporter specifications
MaxReports == 3
\* calls of render in the rendering specification
MaxRenders == 2
\* sub-profiles in one upload response
MaxSubs == 2
\* words, line ends included, in one comment body
MaxWords == 4

\* ------------------------------------------------------------------------
\* Program constants
\* ------------------------------------------------------------------------
\* g.SetLimit(4)
Limit == 4

MatchPaths == {"p", "q"}
Names == {"A", "B"}
Hashes == {"h1", "h2"}
Sides == {"base", "head"}

None == "none"
NoHash == "nohash"

reasonBaseMissing == "benchmark does not exist in base"
reasonHeadMissing == "benchmark does not exist in head"
reasonCodeChange == "code change"

\* ------------------------------------------------------------------------
\* Sequence helpers
\* ------------------------------------------------------------------------
Range(s) == {s[i] : i \in DOMAIN s}

NoDup(s) == \A i, j \in DOMAIN s : i # j => s[i] # s[j]

SeqsUpTo(S, n) == UNION {[1..k -> S] : k \in 0..n}

Prefixes(s) == {SubSeq(s, 1, k) : k \in 0..Len(s)}

\* ------------------------------------------------------------------------
\* The two source trees: what `go list`, `go test -c` and `-test.list`
\* yield for each package of a revision when they succeed.
\* ------------------------------------------------------------------------
Perms(S) == {s \in SeqsUpTo(S, Cardinality(S)) : NoDup(s)}

\* a test binary lists each of its benchmarks once
NameLists == Perms(Names)

TreePkg(P, HS, NL) ==
  [path : P, tests : {TRUE}, hash : HS, names : NL]
    \cup [path : P, tests : {FALSE}, hash : {NoHash}, names : {<<>>}]

\* `go list ./...` reports each import path once
TreeLists(P, HS, NL) ==
  {s \in SeqsUpTo(TreePkg(P, HS, NL), Cardinality(P)) :
     \A i, j \in DOMAIN s : i # j => s[i].path # s[j].path}

\* ------------------------------------------------------------------------
\* State
\* ------------------------------------------------------------------------
VARIABLES
  tree,          \* [base, head]: contents of the two revisions
  pc,            \* position of Compare
  ctxDone,       \* the caller's context was cancelled / timed out
  retErr,        \* error returned by Compare (None while running / nil)
  panicAt,       \* source line of a run-time panic, or None
  baseCommit,    \* b.baseCommit
  headCommit,    \* b.headCommit
  worktree,      \* the base worktree exists on disk
  basePackages,  \* b.basePackages
  headPackages,  \* b.headPackages
  launched,      \* number of g.Go calls that returned
  taskPc,        \* [base, head] -> per package position of its task:
                 \* new, compileTest, listBenchmarks, done (returned nil)
                 \* or failed (returned an error)
  sem,           \* tokens held in the errgroup semaphore
  gErr,          \* g.err
  gCancelled,    \* gctx cancelled by the group
  cleanups,      \* cleaner.cleanups
  cleaned,       \* cleanup actions executed so far, in execution order
  tmpFiles,      \* temporary test binaries on disk
  cleanupErr,    \* the error returned by cleaner.cleanup: the joined errors
                 \* of the actions that failed, in execution order
  r,             \* resultMaps of compareResult: [m, results]
  plan,          \* res := b.compareResult()
  planBuilt,     \* number of times compareResult ran
  planIdx,       \* position of the phase-2 loop in the plan
  sidePc,        \* position inside one iteration of the phase-2 loop
  running,       \* external benchmark processes currently active, as
                 \* <<number of the execution, plan position, side>>
  execLog,       \* benchmark executions started, in order
  lastRun,       \* what the last call of runBenchmark returned: [outcome,
                 \* res, err], res being <<>> for a nil *benchmarkResult
  mtx,           \* cleaner.mtx: the task holding it, 0 when unlocked
  addPc,         \* per task, its position in os.CreateTemp and cleaner.add
  addLocal,      \* per task, the value of c.cleanups it read for the append
  benchGroups,   \* the plan entries handed to generateReport, in groups,
                 \* each entry with its key and its bench.results
  report,        \* the last *report.BenchmarkReport generated, <<>> if none
  numCalls,      \* number of addResult calls made
  ch,            \* the report channel: <<>> or the report being sent
  stopCh,        \* Stop was called on the reporter (gh.stopCh is closed)
  runPc,         \* position of the reporter's run goroutine
  lastReport,    \* lastReport of run, <<>> when nil
  finished,      \* gh.finished
  posts,         \* the calls of postComment, in order: the data the body
                 \* was rendered from, the body and the error returned
  commentID,     \* gh.commentID, 0 while no comment was created
  reacted,       \* gh.reacted
  sentLog,       \* the reports the producer sent on the channel, in order
  received,      \* number of reports taken from the channel
  rendered,      \* the strings returned by the calls of render, in order
  cellIn,        \* the BenchmarkResult whose cells are rendered, <<>> if none
  cellOut,       \* its rendered cells [base, head, diff], <<>> if none
  subProfiles,   \* res.SubProfiles of an upload response, <<>> wrapped
  keyed,         \* the benchmarkResult after the loop over res.SubProfiles
  hookArgs,      \* [args, ghContext] as handed to commentHook, <<>> if none
  hookLog,       \* what commentHook did and returned, in order
  stdin,         \* the lines of the comment body parseCommandLine reads
  parsed,        \* what parseCommandLine returned, <<>> before it returned
  caps,          \* per plan entry, the capacity of the array bench.results
                 \* points to
  aliased,       \* the plan entries whose bench.results still points to the
                 \* array the Results of the last report point to
  seen           \* what a holder of the last report reads in it now

vars == <<tree, pc, ctxDone, retErr, panicAt, baseCommit, headCommit, worktree,
          basePackages, headPackages, launched, taskPc, sem, gErr, gCancelled,
          cleanups, cleaned, tmpFiles, cleanupErr, r, plan, planBuilt, planIdx,
          sidePc, running, execLog, lastRun, mtx, addPc, addLocal, benchGroups,
          report, numCalls, ch, stopCh, runPc, lastReport, finished, posts,
          commentID, reacted, sentLog, received, rendered, cellIn, cellOut,
          subProfiles, keyed, hookArgs, hookLog, stdin, parsed, caps,
          aliased, seen>>

envVars == <<tree>>
gitVars == <<baseCommit, headCommit, worktree>>
pkgVars == <<basePackages, headPackages>>
groupVars == <<launched, taskPc, sem, gErr, gCancelled>>
cleanVars == <<cleanups, cleaned, tmpFiles, cleanupErr>>
matchVars == <<r, plan, planBuilt>>
runVars == <<planIdx, sidePc, running, execLog, lastRun>>
lockVars == <<mtx, addPc, addLocal>>
resultVars == <<benchGroups, report, numCalls, caps, aliased, seen>>
gitHubVars == <<lastReport, finished, posts, commentID, reacted>>
chanVars == <<ch, stopCh, runPc, sentLog, received>>
renderVars == <<rendered, cellIn, cellOut>>
reporterVars == <<gitHubVars, chanVars, renderVars>>
uploadVars == <<subProfiles, keyed>>
hookVars == <<hookArgs, hookLog, stdin, parsed>>
reportVars == <<resultVars, reporterVars, uploadVars, hookVars>>

\* ------------------------------------------------------------------------
\* Packages (type Package) and pointers to them
\* ------------------------------------------------------------------------
\* discoverPackages: one Package per decoded packageMeta, nothing compiled
discoverPackages(list) ==
  [i \in DOMAIN list |->
     [path |-> list[i].path, tests |-> list[i].tests, testBinary |-> None,
      testBinaryHash |-> NoHash, benchmarkNames |-> <<>>]]

\* a check that finds test files in every package
hasNoTestsMut(p) == FALSE

\* (p *Package) hasNoTests
hasNoTests(p) == ~p.tests

\* countPackagesWithTests
countPackagesWithTests(packages) ==
  Cardinality({i \in DOMAIN packages : packages[i].tests})

\* ------------------------------------------------------------------------
\* compareResult and its key index
\* ------------------------------------------------------------------------
\* result{} : nil back-references are 0, others index the revision's slice
emptyResult == [base |-> 0, head |-> 0, reason |-> ""]

\* newResultMaps
newResultMaps == [m |-> [k \in {} |-> 0], results |-> <<>>]

\* (r *resultMaps) get: the index map after the call (idx is m[k])
get(rm, k) ==
  IF k \in DOMAIN rm.m THEN rm
  ELSE [m |-> [x \in DOMAIN rm.m \cup {k} |->
                 IF x = k THEN Len(rm.results) ELSE rm.m[x]],
        results |-> Append(rm.results, emptyResult)]

RECURSIVE resultFromPackages(_, _)
\* resultFromPackages: the calls f(resultKey{ImportPath, b}, p) in order,
\* as <<key, index of p>>, for packages from position idx on
resultFromPackages(pkgs, idx) ==
  IF idx > Len(pkgs) THEN <<>>
  ELSE [j \in DOMAIN pkgs[idx].benchmarkNames |->
          <<(<<pkgs[idx].path, pkgs[idx].benchmarkNames[j]>>), idx>>]
       \o resultFromPackages(pkgs, idx + 1)

RECURSIVE setSideMut(_, _, _)
\* setSide storing a fresh result for the key instead of updating the shared
\* one
setSideMut(rm, calls, side) ==
  IF calls = <<>> THEN rm
  ELSE LET k == Head(calls)[1]
           p == Head(calls)[2]
           g == get(rm, k)
           i == g.m[k] + 1
           x == IF side = "head" THEN [emptyResult EXCEPT !.head = p]
                                 ELSE [emptyResult EXCEPT !.base = p]
       IN setSideMut([g EXCEPT !.results[i] = x], Tail(calls), side)

RECURSIVE setSide(_, _, _)
\* the callbacks of compareResult: x := r.get(k); x.<side> = p
setSide(rm, calls, side) ==
  IF calls = <<>> THEN rm
  ELSE LET k == Head(calls)[1]
           p == Head(calls)[2]
           g == get(rm, k)
           i == g.m[k] + 1
           x == IF side = "head" THEN [g.results[i] EXCEPT !.head = p]
                                 ELSE [g.results[i] EXCEPT !.base = p]
       IN setSide([g EXCEPT !.results[i] = x], Tail(calls), side)

\* mergedKeys visiting the base packages first
mergedKeysMut(bp, hp) ==
  setSide(setSide(newResultMaps, resultFromPackages(bp, 1), "base"),
          resultFromPackages(hp, 1), "head")

\* the merged key space of compareResult: head first, then base
mergedKeys(bp, hp) ==
  setSide(setSide(newResultMaps, resultFromPackages(hp, 1), "head"),
          resultFromPackages(bp, 1), "base")

\* keys[v] = k for k, v := range r.m
keysOf(rm) ==
  [i \in 1..Cardinality(DOMAIN rm.m) |->
     CHOOSE k \in DOMAIN rm.m : rm.m[k] = i - 1]

\* the classification of one result in the loop of compareResult
reasonOf(res) ==
  IF res.base = 0 THEN reasonBaseMissing
  ELSE IF res.head = 0 THEN reasonHeadMissing
  ELSE reasonCodeChange

\* bytes.Equal(res.base.testBinaryHash, res.head.testBinaryHash) guarded by
\* both sides being present
sameHash(res, bp, hp) ==
  /\ res.base # 0
  /\ res.head # 0
  /\ bp[res.base].testBinaryHash = hp[res.head].testBinaryHash

RECURSIVE planLoop(_, _, _, _, _, _)
\* the loop over r.results of compareResult from position idx on; the debug
\* log after the append evaluates res.head.meta.ImportPath and panics on a
\* nil head
planLoop(results, keys, bp, hp, idx, out) ==
  IF idx > Len(results) THEN [toBeRun |-> out, panicked |-> FALSE]
  ELSE LET res == results[idx] IN
    IF sameHash(res, bp, hp)
    THEN planLoop(results, keys, bp, hp, idx + 1, out)
    ELSE LET e == [key |-> keys[idx], base |-> res.base, head |-> res.head,
                   reason |-> reasonOf(res)]
         IN IF res.head = 0
            THEN [toBeRun |-> Append(out, e), panicked |-> TRUE]
            ELSE planLoop(results, keys, bp, hp, idx + 1, Append(out, e))

\* (b *Benchmark) compareResult
compareResult(bp, hp) ==
  LET rm == mergedKeys(bp, hp)
  IN IF Len(rm.results) = 0
     THEN [toBeRun |-> <<>>, panicked |-> FALSE]
     ELSE planLoop(rm.results, keysOf(rm), bp, hp, 1, <<>>)

\* ------------------------------------------------------------------------
\* Compare: start-up steps
\* ------------------------------------------------------------------------
\* return fmt.Errorf(...): the deferred cleaner.cleanup runs next
returnErr(e) ==
  /\ retErr' = e
  /\ pc' = "cleanup"

\* a run-time panic unwinds Compare: the deferred cleaner.cleanup runs next
panic(at) ==
  /\ panicAt' = at
  /\ pc' = "cleanup"

\* the caller's context is cancelled or its deadline passes
CtxCancel ==
  /\ ~ctxDone
  /\ pc \notin {"cleanup", "done"}
  /\ ctxDone' = TRUE
  /\ UNCHANGED <<envVars, lockVars, reportVars, pc, retErr, panicAt, gitVars, pkgVars, groupVars,
                 cleanVars, matchVars, runVars>>

\* b.prerequisites: exec.LookPath of go and git
Prerequisites ==
  /\ pc = "prerequisites"
  /\ \E ok \in BOOLEAN :
       IF ok THEN pc' = "gitRevParseBase" /\ UNCHANGED retErr
       ELSE returnErr("error checking prerequisites")
  /\ UNCHANGED <<envVars, lockVars, reportVars, ctxDone, panicAt, gitVars, pkgVars, groupVars,
                 cleanVars, matchVars, runVars>>

\* the base revision resolved with its error dropped
GitRevParseBaseMut ==
  /\ pc = "gitRevParseBase"
  /\ \E ok \in (IF ctxDone THEN {FALSE} ELSE BOOLEAN) :
       baseCommit' = IF ok THEN "basesha" ELSE ""
  /\ pc' = "gitRevParseHead"
  /\ UNCHANGED <<envVars, lockVars, reportVars, ctxDone, retErr, panicAt, headCommit, worktree,
                 pkgVars, groupVars, cleanVars, matchVars, runVars>>

\* b.baseCommit, err = b.gitRevParse(ctx, args.GitBase)
GitRevParseBase ==
  /\ pc = "gitRevParseBase"
  /\ \E ok \in (IF ctxDone THEN {FALSE} ELSE BOOLEAN) :
       IF ok THEN /\ pc' = "gitRevParseHead"
                  /\ baseCommit' = "basesha"
                  /\ UNCHANGED retErr
       ELSE /\ returnErr("error resolving base git rev")
            /\ baseCommit' = ""
  /\ UNCHANGED <<envVars, lockVars, reportVars, ctxDone, panicAt, headCommit, worktree, pkgVars,
                 groupVars, cleanVars, matchVars, runVars>>

\* b.headCommit, err = b.gitRevParse(ctx, "HEAD"), then os.Getwd/filepath.Abs
GitRevParseHead ==
  /\ pc = "gitRevParseHead"
  /\ \E ok \in (IF ctxDone THEN {FALSE} ELSE BOOLEAN) :
       IF ok THEN /\ headCommit' = "headsha"
                  /\ \E wd \in BOOLEAN :
                       IF wd THEN pc' = "gitCheckoutBase" /\ UNCHANGED retErr
                       ELSE returnErr("error getting working directory")
       ELSE /\ returnErr("error resolving head git rev")
            /\ headCommit' = ""
  /\ UNCHANGED <<envVars, lockVars, reportVars, ctxDone, panicAt, baseCommit, worktree, pkgVars,
                 groupVars, cleanVars, matchVars, runVars>>

\* cleaner.add: append under the mutex
add(reg, f) == Append(reg, f)

\* b.gitCheckoutBase: MkdirTemp, git worktree add, register the removal
GitCheckoutBase ==
  /\ pc = "gitCheckoutBase"
  /\ \E ok \in (IF ctxDone THEN {FALSE} ELSE BOOLEAN) :
       IF ok THEN /\ worktree' = TRUE
                  /\ cleanups' = add(cleanups, <<"worktree">>)
                  /\ pc' = "discoverHead"
                  /\ UNCHANGED retErr
       ELSE /\ returnErr("error checking out base commit")
            /\ UNCHANGED <<worktree, cleanups>>
  /\ UNCHANGED <<envVars, lockVars, reportVars, ctxDone, panicAt, baseCommit, headCommit, pkgVars,
                 groupVars, cleaned, tmpFiles, cleanupErr, matchVars, runVars>>

\* headPackages, err := discoverPackages(ctx, b.logger, b.headDir)
DiscoverHead ==
  /\ pc = "discoverHead"
  /\ \E ok \in (IF ctxDone THEN {FALSE} ELSE BOOLEAN) :
       IF ok THEN /\ headPackages' = discoverPackages(tree.head)
                  /\ pc' = "discoverBase"
                  /\ UNCHANGED retErr
       ELSE /\ returnErr("error discovering packages in head")
            /\ UNCHANGED headPackages
  /\ UNCHANGED <<envVars, lockVars, reportVars, ctxDone, panicAt, gitVars, basePackages, groupVars,
                 cleanVars, matchVars, runVars>>

\* basePackages, err := discoverPackages(ctx, b.logger, b.baseDir), then
\* errgroup.WithContext and g.SetLimit
DiscoverBase ==
  /\ pc = "discoverBase"
  /\ \E ok \in (IF ctxDone THEN {FALSE} ELSE BOOLEAN) :
       IF ok THEN /\ basePackages' = discoverPackages(tree.base)
                  /\ taskPc' = [base |-> [i \in DOMAIN tree.base |-> "new"],
                                head |-> [i \in DOMAIN headPackages |-> "new"]]
                  /\ pc' = "phase1"
                  /\ UNCHANGED retErr
       ELSE /\ returnErr("error discovering packages in head")
            /\ UNCHANGED <<basePackages, taskPc>>
  /\ UNCHANGED <<envVars, lockVars, reportVars, ctxDone, panicAt, gitVars, headPackages, launched,
                 sem, gErr, gCancelled, cleanVars, matchVars, runVars>>

\* ------------------------------------------------------------------------
\* Phase 1: compile and list every package in an errgroup limited to Limit
\* ------------------------------------------------------------------------
pkgsOf(side) == IF side = "base" THEN basePackages ELSE headPackages

\* the order of the g.Go calls: for _, pkgs := range {base, head}
taskAt(t) ==
  IF t <= Len(basePackages) THEN <<"base", t>>
  ELSE <<"head", t - Len(basePackages)>>

numTasks == Len(basePackages) + Len(headPackages)

\* gctx.Done(): cancelled by the group or through the parent context
gctxDone == gCancelled \/ ctxDone

inFlight ==
  {<<s, i>> \in UNION {{s2} \X DOMAIN taskPc[s2] : s2 \in Sides} :
     taskPc[s][i] \in {"compileTest", "listBenchmarks"}}

\* g.Go without a limit
mayLaunchMut(n) == TRUE

\* g.Go blocks on the semaphore until fewer than Limit tasks are active
mayLaunch(n) == n < Limit

\* g.Go(func() error {...}) for the next package
Launch ==
  /\ pc = "phase1"
  /\ launched < numTasks
  /\ mayLaunch(sem)
  /\ LET t == taskAt(launched + 1) IN
       taskPc' = [taskPc EXCEPT ![t[1]][t[2]] = "compileTest"]
  /\ sem' = sem + 1
  /\ launched' = launched + 1
  /\ UNCHANGED <<envVars, lockVars, reportVars, pc, ctxDone, retErr, panicAt, gitVars, pkgVars,
                 gErr, gCancelled, cleanVars, matchVars, runVars>>

\* the task function returned err: errOnce keeps the first error and cancels
\* gctx; done() releases the semaphore token
taskFail(side, i, e) ==
  /\ taskPc' = [taskPc EXCEPT ![side][i] = "failed"]
  /\ sem' = sem - 1
  /\ gErr' = IF gErr = None THEN e ELSE gErr
  /\ gCancelled' = TRUE

setPkg(side, i, p) ==
  IF side = "base"
  THEN basePackages' = [basePackages EXCEPT ![i] = p] /\ UNCHANGED headPackages
  ELSE headPackages' = [headPackages EXCEPT ![i] = p] /\ UNCHANGED basePackages

\* outcomes of `go test -c` once the temporary file exists: "empty" is a
\* command that succeeded and left a zero-byte binary
compileOutcomes == IF gctxDone THEN {"fail"} ELSE {"ok", "fail", "empty"}

\* the error compileTest returns for a failed or empty compilation
compileErr(o, side, i) ==
  <<IF o = "empty" THEN "test binary is empty" ELSE "failed to compile test",
    side, i>>

\* the hash stored before the size of the binary is looked at
hashAfterMut(o, h) == IF o \in {"ok", "empty"} THEN h ELSE NoHash

\* p.testBinaryHash after `go test -c` ended with outcome o and wrote a
\* binary of hash h: it is set once the command succeeded and stat.Size()
\* is not 0
hashAfter(o, h) == IF o = "ok" THEN h ELSE NoHash

\* a removal registered once the compilation succeeded
registerRemoveMut(reg, side, i, o) ==
  IF o = "ok" THEN add(reg, <<"bin", side, i>>) ELSE reg

\* cleanupFromContext(ctx)(func() error { return os.Remove(tmpFile.Name()) }):
\* registered right after os.CreateTemp, whatever the outcome o of the
\* compilation that follows
registerRemove(reg, side, i, o) == add(reg, <<"bin", side, i>>)

\* the task function up to the end of `go test -c` in p.compileTest(gctx);
\* for a package without test files compileTest and listBenchmarks return
\* nil at once and the task is over
CompileTest(side, i) ==
  /\ pc = "phase1"
  /\ i \in DOMAIN taskPc[side]
  /\ taskPc[side][i] = "compileTest"
  /\ LET p == pkgsOf(side)[i] IN
       IF hasNoTests(p)
       THEN /\ taskPc' = [taskPc EXCEPT ![side][i] = "done"]
            /\ sem' = sem - 1
            /\ UNCHANGED <<pkgVars, gErr, gCancelled, cleanups, tmpFiles>>
       ELSE \/ \* os.CreateTemp failed
               /\ taskFail(side, i, <<"createTemp", side, i>>)
               /\ UNCHANGED <<pkgVars, cleanups, tmpFiles>>
            \/ \E o \in compileOutcomes :
                 /\ cleanups' = registerRemove(cleanups, side, i, o)
                 /\ tmpFiles' = tmpFiles \cup {<<side, i>>}
                 /\ setPkg(side, i,
                           [p EXCEPT !.testBinary = <<side, i>>,
                                     !.testBinaryHash =
                                        hashAfter(o, tree[side][i].hash)])
                 /\ IF o = "ok"
                    THEN /\ taskPc' = [taskPc EXCEPT ![side][i] = "listBenchmarks"]
                         /\ UNCHANGED <<sem, gErr, gCancelled>>
                    ELSE taskFail(side, i, compileErr(o, side, i))
  /\ UNCHANGED <<envVars, lockVars, reportVars, pc, ctxDone, retErr, panicAt, gitVars, launched,
                 cleaned, cleanupErr, matchVars, runVars>>

\* how the process listBenchmarks starts can end: its output is read to the
\* end and it exits with 0, or reading or waiting fails after some names
listOutcomes(names) ==
  {[ok |-> TRUE, read |-> names]} \cup
  {[ok |-> FALSE, read |-> pre] : pre \in Prefixes(names)}

\* a listBenchmarks that does not look at p.testBinary
listBenchmarksMut(p, done, o, at) ==
  IF hasNoTests(p)
  THEN [err |-> None, started |-> FALSE, names |-> p.benchmarkNames]
  ELSE IF done
  THEN [err |-> <<"listBenchmarks", at[1], at[2]>>, started |-> FALSE,
        names |-> p.benchmarkNames]
  ELSE [err |-> IF o.ok THEN None ELSE <<"listBenchmarks", at[1], at[2]>>,
        started |-> TRUE, names |-> o.read]

\* (p *Package) listBenchmarks(ctx) for the package at position at, done
\* telling that ctx is done and o how the process ends: the error returned,
\* whether a process was started, and p.benchmarkNames afterwards
listBenchmarks(p, done, o, at) ==
  IF hasNoTests(p)
  THEN [err |-> None, started |-> FALSE, names |-> p.benchmarkNames]
  ELSE IF p.testBinary = None
  THEN [err |-> "test binary not compiled", started |-> FALSE,
        names |-> p.benchmarkNames]
  ELSE IF done
  THEN [err |-> <<"listBenchmarks", at[1], at[2]>>, started |-> FALSE,
        names |-> p.benchmarkNames]
  ELSE [err |-> IF o.ok THEN None ELSE <<"listBenchmarks", at[1], at[2]>>,
        started |-> TRUE, names |-> o.read]

\* p.listBenchmarks(gctx) of a package with test files, then the task
\* returns
ListBenchmarks(side, i) ==
  /\ pc = "phase1"
  /\ i \in DOMAIN taskPc[side]
  /\ taskPc[side][i] = "listBenchmarks"
  /\ LET p == pkgsOf(side)[i] IN
       \E o \in listOutcomes(tree[side][i].names) :
         LET out == listBenchmarks(p, gctxDone, o, <<side, i>>) IN
           /\ setPkg(side, i, [p EXCEPT !.benchmarkNames = out.names])
           /\ IF out.err = None
              THEN /\ taskPc' = [taskPc EXCEPT ![side][i] = "done"]
                   /\ sem' = sem - 1
                   /\ UNCHANGED <<gErr, gCancelled>>
              ELSE taskFail(side, i, out.err)
  /\ UNCHANGED <<envVars, lockVars, reportVars, pc, ctxDone, retErr, panicAt, gitVars, launched,
                 cleanVars, matchVars, runVars>>

\* Wait whose error is dropped
WaitIgnoringErr ==
  /\ pc = "phase1"
  /\ launched = numTasks
  /\ inFlight = {}
  /\ pc' = "compareResult"
  /\ gCancelled' = TRUE
  /\ UNCHANGED <<envVars, lockVars, reportVars, ctxDone, retErr, panicAt, gitVars, pkgVars, launched,
                 taskPc, sem, gErr, cleanVars, matchVars, runVars>>

\* Wait returning as soon as every task was launched
WaitEarly ==
  /\ pc = "phase1"
  /\ launched = numTasks
  /\ IF gErr # None THEN returnErr(gErr)
     ELSE pc' = "compareResult" /\ UNCHANGED retErr
  /\ gCancelled' = TRUE
  /\ UNCHANGED <<envVars, lockVars, reportVars, ctxDone, panicAt, gitVars, pkgVars, launched, taskPc,
                 sem, gErr, cleanVars, matchVars, runVars>>

\* err = g.Wait(): returns once every task has returned
Wait ==
  /\ pc = "phase1"
  /\ launched = numTasks
  /\ inFlight = {}
  /\ IF gErr # None THEN returnErr(gErr)
     ELSE pc' = "compareResult" /\ UNCHANGED retErr
  /\ gCancelled' = TRUE
  /\ UNCHANGED <<envVars, lockVars, reportVars, ctxDone, panicAt, gitVars, pkgVars, launched, taskPc,
                 sem, gErr, cleanVars, matchVars, runVars>>

\* ------------------------------------------------------------------------
\* compareResult and phase 2: run the planned benchmarks one after another
\* ------------------------------------------------------------------------
\* res := b.compareResult()
CompareResult ==
  /\ pc = "compareResult"
  /\ LET c == compareResult(basePackages, headPackages) IN
       /\ r' = mergedKeys(basePackages, headPackages)
       /\ planBuilt' = planBuilt + 1
       /\ IF c.panicked
          THEN /\ panic("compareResult: res.head.meta.ImportPath")
               /\ UNCHANGED plan
          ELSE /\ plan' = c.toBeRun
               /\ pc' = "phase2"
               /\ UNCHANGED panicAt
  /\ UNCHANGED <<envVars, lockVars, reportVars, ctxDone, retErr, gitVars, pkgVars, groupVars,
                 cleanVars, runVars>>

\* the position after side s of plan entry idx
nextPos(idx, s) == IF s = "base" THEN <<idx, "head">> ELSE <<idx + 1, "base">>

\* sideRef testing the head reference on both sides
sideRefMut(e, s) == e.head

\* r.base / r.head of a plan entry
sideRef(e, s) == IF s = "base" THEN e.base ELSE e.head

\* if r.base != nil / if r.head != nil evaluated to false
SkipSide ==
  /\ pc = "phase2"
  /\ planIdx <= Len(plan)
  /\ running = {}
  /\ sideRef(plan[planIdx], sidePc) = 0
  /\ planIdx' = nextPos(planIdx, sidePc)[1]
  /\ sidePc' = nextPos(planIdx, sidePc)[2]
  /\ UNCHANGED <<envVars, lockVars, reportVars, pc, ctxDone, retErr, panicAt, gitVars, pkgVars,
                 groupVars, cleanVars, matchVars, running, execLog, lastRun>>

\* the profiles written by a benchmark process: sample types and, per
\* sample, one value for each type
cpuProfile ==
  [SampleType |-> <<"samples", "cpu">>, Sample |-> << <<1, 10>>, <<2, 20>> >>]

memProfile ==
  [SampleType |-> <<"alloc_objects", "alloc_space", "inuse_objects",
                    "inuse_space">>,
   Sample |-> << <<1, 8, 1, 8>>, <<2, 16, 0, 0>>, <<4, 64, 1, 16>> >>]

\* what the sharing service answers for an uploaded profile
uploadResponse(prof) ==
  IF prof = cpuProfile
  THEN <<[Name |-> "cpu", Key |-> "key-cpu"]>>
  ELSE <<[Name |-> "alloc_objects", Key |-> "key-alloc-objects"],
         [Name |-> "alloc_space", Key |-> "key-alloc-space"]>>

RECURSIVE sumProfiles(_, _, _)
\* sumProfiles: the sum of sample.Value[typeIdx] from sample n on
sumProfiles(prof, typeIdx, n) ==
  IF n > Len(prof.Sample) THEN 0
  ELSE prof.Sample[n][typeIdx] + sumProfiles(prof, typeIdx, n + 1)

\* profileResult{}
emptyProfileResult == [Key |-> "", Total |-> 0]

RECURSIVE setTotals(_, _, _)
\* the loop over prof.SampleType of runBenchmark from type idx on
setTotals(result, prof, idx) ==
  IF idx > Len(prof.SampleType) THEN result
  ELSE LET t == prof.SampleType[idx]
           sum == sumProfiles(prof, idx, 1)
       IN setTotals(
            IF t = "alloc_objects" THEN [result EXCEPT !.AllocObjects.Total = sum]
            ELSE IF t = "alloc_space" THEN [result EXCEPT !.AllocSpace.Total = sum]
            ELSE IF t = "cpu" THEN [result EXCEPT !.CPU.Total = sum]
            ELSE result,
            prof, idx + 1)

RECURSIVE setKeys(_, _, _)
\* the loop over res.SubProfiles of runBenchmark from position idx on
setKeys(result, subs, idx) ==
  IF idx > Len(subs) THEN result
  ELSE LET sub == subs[idx]
       IN setKeys(
            IF sub.Name = "alloc_objects" THEN [result EXCEPT !.AllocObjects.Key = sub.Key]
            ELSE IF sub.Name = "alloc_space" THEN [result EXCEPT !.AllocSpace.Key = sub.Key]
            ELSE IF sub.Name = "cpu" THEN [result EXCEPT !.CPU.Key = sub.Key]
            ELSE result,
            subs, idx + 1)

\* the steps of runBenchmark that can fail, in order
RunSteps == <<"mkdirTemp", "run", "parseOutput", "cpuProfile", "cpuUpload",
              "memProfile", "memUpload">>

\* no call of runBenchmark returned yet
noRun == [outcome |-> None, res |-> <<>>, err |-> None]

\* (p *Package) runBenchmark: outcome is "ok" or the step that failed; every
\* failing step, uploadProfile included, returns nil and the error
runBenchmark(p, benchName, outcome) ==
  IF outcome # "ok"
  THEN [outcome |-> outcome, res |-> <<>>, err |-> outcome]
  ELSE LET result == [ImportPath |-> p.path, Name |-> benchName,
                      AllocObjects |-> emptyProfileResult,
                      AllocSpace |-> emptyProfileResult,
                      CPU |-> emptyProfileResult]
           cpu == setKeys(setTotals(result, cpuProfile, 1),
                          uploadResponse(cpuProfile), 1)
           mem == setKeys(setTotals(cpu, memProfile, 1),
                          uploadResponse(memProfile), 1)
       IN [outcome |-> "ok", res |-> <<mem>>, err |-> None]

\* the package a side of a plan entry refers to
sidePkg(e, s) == IF s = "base" THEN basePackages[e.base] ELSE headPackages[e.head]

\* the rest of one side of an iteration once runBenchmark returned rb: an
\* error is logged with r.base.meta.ImportPath on both sides, then
\* handleResult reads res.CPU.Key of the result, nil after an error
handleRun(e, rb) ==
  IF rb.err # None /\ e.base = 0
  THEN panic("Compare: r.base.meta.ImportPath")
  ELSE IF rb.res = <<>>
  THEN panic("Compare: handleResult(nil)")
  ELSE UNCHANGED <<pc, panicAt>>

\* a benchmark started without waiting for the previous one
mayStartMut(procs) == TRUE

\* the previous benchmark process was waited for by c.Run before the loop
\* goes on
mayStart(procs) == procs = {}

\* runBenchmark up to c.Run starting the process
RunBenchmarkStart ==
  /\ pc = "phase2"
  /\ planIdx <= Len(plan)
  /\ mayStart(running)
  /\ sideRef(plan[planIdx], sidePc) # 0
  /\ \/ \* the process is started
        /\ ~ctxDone
        /\ running' = running \cup {<<Len(execLog) + 1, planIdx, sidePc>>}
        /\ execLog' = Append(execLog, <<plan[planIdx].key, sidePc>>)
        /\ UNCHANGED <<pc, panicAt, lastRun>>
     \/ \* os.MkdirTemp failed, or the process cannot be started (as when
        \* the context is done): nothing is started
        /\ \E o \in {"mkdirTemp", "run"} :
             lastRun' = runBenchmark(sidePkg(plan[planIdx], sidePc),
                                     plan[planIdx].key[2], o)
        /\ handleRun(plan[planIdx], lastRun')
        /\ UNCHANGED <<running, execLog>>
  /\ UNCHANGED <<envVars, lockVars, reportVars, ctxDone, retErr, gitVars, pkgVars, groupVars,
                 cleanVars, matchVars, planIdx, sidePc>>

\* how runBenchmark can end once the process was started: the uploads need
\* a context that is not done
endOutcomes ==
  {RunSteps[n] : n \in 2..Len(RunSteps)} \cup (IF ctxDone THEN {} ELSE {"ok"})

\* the benchmark process terminated; the output is parsed, the profiles are
\* summed and uploaded, runBenchmark returns and the side is handled
RunBenchmarkEnd ==
  /\ pc = "phase2"
  /\ \E proc \in running :
       /\ running' = running \ {proc}
       /\ \E o \in endOutcomes :
            /\ lastRun' = runBenchmark(sidePkg(plan[proc[2]], proc[3]),
                                       plan[proc[2]].key[2], o)
            /\ handleRun(plan[proc[2]], lastRun')
            /\ IF lastRun'.err = None
               THEN /\ planIdx' = nextPos(proc[2], proc[3])[1]
                    /\ sidePc' = nextPos(proc[2], proc[3])[2]
               ELSE UNCHANGED <<planIdx, sidePc>>
  /\ UNCHANGED <<envVars, lockVars, reportVars, ctxDone, retErr, gitVars, pkgVars, groupVars,
                 cleanVars, matchVars, execLog>>

\* the loop over res ended: return nil
ReturnNil ==
  /\ pc = "phase2"
  /\ planIdx > Len(plan)
  /\ running = {}
  /\ pc' = "cleanup"
  /\ UNCHANGED <<envVars, lockVars, reportVars, ctxDone, retErr, panicAt, gitVars, pkgVars,
                 groupVars, cleanVars, matchVars, runVars>>

\* ------------------------------------------------------------------------
\* Teardown: the deferred cleaner.cleanup
\* ------------------------------------------------------------------------
\* cleanup in registration order
cleanupAtMut(reg, idx) == reg[idx + 1]

\* c.cleanups[l-1-idx] for the 0-based loop index idx
cleanupAt(reg, idx) == reg[Len(reg) - idx]

\* the actions that may return an error: `git worktree remove` is run with
\* exec.Command and the binaries are removed with os.Remove, neither of which
\* takes the context of the run
cleanupFailures(reg) == SUBSET Range(reg)

\* the actions called by a loop that returns at the first error
executedMut(reg, failing) ==
  LET all == [n \in 1..Len(reg) |-> cleanupAt(reg, n - 1)]
      bad == {n \in 1..Len(reg) : all[n] \in failing}
  IN IF bad = {} THEN all
     ELSE SubSeq(all, 1, CHOOSE n \in bad : \A m \in bad : n <= m)

\* the actions called by the loop of cleaner.cleanup, in call order: an
\* error is joined to err and the loop goes on
executed(reg, failing) == [n \in 1..Len(reg) |-> cleanupAt(reg, n - 1)]

\* err = errors.Join(err, f()) over the calls: the errors of the failed
\* actions in call order
joinedErr(calls, failing) == SelectSeq(calls, LAMBDA a : a \in failing)

\* the deferred function of Compare: cleaner.cleanup runs every registered
\* action, then Compare returns (or the panic propagates)
Cleanup ==
  /\ pc = "cleanup"
  /\ \E failing \in cleanupFailures(cleanups) :
       /\ cleaned' = executed(cleanups, failing)
       /\ cleanupErr' = joinedErr(cleaned', failing)
       /\ worktree' = (worktree /\ <<"worktree">> \notin Range(cleaned') \ failing)
       /\ tmpFiles' = {f \in tmpFiles :
                         <<"bin", f[1], f[2]>> \notin Range(cleaned') \ failing}
  /\ pc' = "done"
  /\ UNCHANGED <<envVars, lockVars, reportVars, ctxDone, retErr, panicAt, baseCommit, headCommit,
                 pkgVars, groupVars, cleanups, matchVars, runVars>>

\* ------------------------------------------------------------------------
\* cleaner.add step by step, as called by concurrent compileTest tasks
\* ------------------------------------------------------------------------
\* the action registered by the compileTest of head package i
binCleanup(i) == <<"bin", "head", i>>

\* tmpFile, err := os.CreateTemp(...) in the task of head package i
CreateTemp(i) ==
  /\ i \in DOMAIN addPc
  /\ addPc[i] = "createTemp"
  /\ \/ /\ addPc' = [addPc EXCEPT ![i] = "add"]
        /\ tmpFiles' = tmpFiles \cup {<<"head", i>>}
     \/ /\ addPc' = [addPc EXCEPT ![i] = "failed"]
        /\ UNCHANGED tmpFiles
  /\ UNCHANGED <<envVars, reportVars, pc, ctxDone, retErr, panicAt, gitVars,
                 pkgVars, groupVars, cleanups, cleaned, cleanupErr, matchVars, runVars,
                 mtx, addLocal>>

\* Lock that does not wait for the holder
mayLockMut(m) == TRUE

\* c.mtx.Lock() returns once the mutex is free
mayLock(m) == m = 0

\* c.mtx.Lock()
AddLock(i) ==
  /\ i \in DOMAIN addPc
  /\ addPc[i] = "add"
  /\ mayLock(mtx)
  /\ mtx' = i
  /\ addPc' = [addPc EXCEPT ![i] = "locked"]
  /\ UNCHANGED <<envVars, reportVars, pc, ctxDone, retErr, panicAt, gitVars,
                 pkgVars, groupVars, cleanVars, matchVars, runVars, addLocal>>

\* append(c.cleanups, f): the slice c.cleanups is read
AddRead(i) ==
  /\ i \in DOMAIN addPc
  /\ addPc[i] = "locked"
  /\ addLocal' = [addLocal EXCEPT ![i] = cleanups]
  /\ addPc' = [addPc EXCEPT ![i] = "read"]
  /\ UNCHANGED <<envVars, reportVars, pc, ctxDone, retErr, panicAt, gitVars,
                 pkgVars, groupVars, cleanVars, matchVars, runVars, mtx>>

\* c.cleanups = append(...): the extended slice is stored
AddStore(i) ==
  /\ i \in DOMAIN addPc
  /\ addPc[i] = "read"
  /\ cleanups' = add(addLocal[i], binCleanup(i))
  /\ addPc' = [addPc EXCEPT ![i] = "stored"]
  /\ UNCHANGED <<envVars, reportVars, pc, ctxDone, retErr, panicAt, gitVars,
                 pkgVars, groupVars, cleaned, tmpFiles, cleanupErr, matchVars, runVars,
                 mtx, addLocal>>

\* defer c.mtx.Unlock(), and add returns
AddUnlock(i) ==
  /\ i \in DOMAIN addPc
  /\ addPc[i] = "stored"
  /\ mtx' = 0
  /\ addPc' = [addPc EXCEPT ![i] = "returned"]
  /\ UNCHANGED <<envVars, reportVars, pc, ctxDone, retErr, panicAt, gitVars,
                 pkgVars, groupVars, cleanVars, matchVars, runVars, addLocal>>

\* ------------------------------------------------------------------------
\* bench.addResult and generateReport
\* ------------------------------------------------------------------------
\* the keys of the map m of addResult
ResourceNames == {"cpu", "alloc_space", "alloc_objects"}

\* the unit of an entry of m
unitOf(name) ==
  IF name = "cpu" THEN "ns" ELSE IF name = "alloc_space" THEN "bytes" ELSE ""

\* the profileResult an entry of m points to
profOf(res, name) ==
  IF name = "cpu" THEN res.CPU
  ELSE IF name = "alloc_space" THEN res.AllocSpace
  ELSE res.AllocObjects

\* report.BenchmarkValue{}
emptyValue == [ProfileValue |-> 0, FlamegraphKey |-> ""]

\* addValue: the side of xres that source names is overwritten
addValue(xres, xprof, source) ==
  LET v == [ProfileValue |-> xprof.Total, FlamegraphKey |-> xprof.Key]
  IN IF source = "base" THEN [xres EXCEPT !.BaseValue = v]
     ELSE [xres EXCEPT !.HeadValue = v]

RECURSIVE updateLoop(_, _, _, _, _)
\* the loop over b.results from position idx on: an entry whose profile has
\* a key is updated and its name deleted from m; with an empty key the loop
\* continues before the delete
updateLoop(results, m, res, source, idx) ==
  IF idx > Len(results) THEN [results |-> results, m |-> m]
  ELSE LET name == results[idx].Name IN
    IF name \notin m \/ profOf(res, name).Key = ""
    THEN updateLoop(results, m, res, source, idx + 1)
    ELSE updateLoop([results EXCEPT ![idx] = addValue(@, profOf(res, name), source)],
                    m \ {name}, res, source, idx + 1)

RECURSIVE appendLoop(_, _, _, _, _)
\* for name, prof := range m, the names coming in the order the map
\* iteration happens to yield, from position idx of that order on
appendLoop(results, order, res, source, idx) ==
  IF idx > Len(order) THEN results
  ELSE appendLoop(
         Append(results,
                addValue([Name |-> order[idx], Unit |-> unitOf(order[idx]),
                          BaseValue |-> emptyValue, HeadValue |-> emptyValue],
                         profOf(res, order[idx]), source)),
         order, res, source, idx + 1)

\* the less function handed to sort.Slice
less(x, y) == x.Name = y.Name

RECURSIVE sinkDown(_, _)
\* the inner loop of the insertion sort: for j > a && less(j, j-1) swap
sinkDown(data, j) ==
  IF j > 1 /\ less(data[j], data[j - 1])
  THEN sinkDown([data EXCEPT ![j] = data[j - 1], ![j - 1] = data[j]], j - 1)
  ELSE data

RECURSIVE insertionSort(_, _)
\* sort.Slice on a slice of at most 12 elements: insertion sort from
\* position i on
insertionSort(data, i) ==
  IF i > Len(data) THEN data
  ELSE insertionSort(sinkDown(data, i), i + 1)

\* the orders in which the map iteration can yield the names left in m
iterationOrders(m) == {o \in [1..Cardinality(m) -> m] : NoDup(o)}

\* (b *bench) addResult: b.results after the call, order being the map
\* iteration order of the second loop
addResult(results, source, res, order) ==
  LET u == updateLoop(results, ResourceNames, res, source, 1)
  IN insertionSort(appendLoop(u.results, order, res, source, 1), 2)

\* the names left in m when the second loop of addResult starts
leftInM(results, source, res) ==
  updateLoop(results, ResourceNames, res, source, 1).m

\* fmt.Sprintf("%s.%s", res.key.packagePath, res.key.benchmark)
runName(key) == key[1] \o "." \o key[2]

RECURSIVE runsOf(_, _, _)
\* the loops of generateReport from entry i of group g on
runsOf(groups, g, i) ==
  IF g > Len(groups) THEN <<>>
  ELSE IF i > Len(groups[g]) THEN runsOf(groups, g + 1, 1)
  ELSE <<[Name |-> runName(groups[g][i].key), Results |-> groups[g][i].results]>>
       \o runsOf(groups, g, i + 1)

\* generateReport dropping the entries without results
generateReportMut(groups) ==
  [BaseRef |-> baseCommit, HeadRef |-> headCommit,
   Runs |-> SelectSeq(runsOf(groups, 1, 1), LAMBDA x : x.Results # <<>>)]

\* (b *Benchmark) generateReport
generateReport(groups) ==
  [BaseRef |-> baseCommit, HeadRef |-> headCommit, Runs |-> runsOf(groups, 1, 1)]

RECURSIVE runRefs(_, _, _)
\* the plan entry <<g, i>> each run of generateReport takes its Results
\* from, in the order of the runs
runRefs(groups, g, i) ==
  IF g > Len(groups) THEN <<>>
  ELSE IF i > Len(groups[g]) THEN runRefs(groups, g + 1, 1)
  ELSE <<(<<g, i>>)>> \o runRefs(groups, g, i + 1)

\* the capacity append gives a slice that is full: growslice doubles a
\* small capacity, and the sizes of up to eight BenchmarkResult of 80 bytes
\* are malloc size classes
grown(c) == IF c = 0 THEN 1 ELSE 2 * c

RECURSIVE capAfter(_, _, _)
\* the capacity after n single appends to a slice of length len and
\* capacity c
capAfter(len, c, n) ==
  IF n = 0 THEN c
  ELSE capAfter(len + 1, IF len < c THEN c ELSE grown(c), n - 1)

\* b.results = append(b.results, res) of the second loop of addResult moves
\* the results to a new array: the names in order do not fit the capacity
reallocates(results, c, order) == Len(results) + Len(order) > c

\* Results: res.bench.results of generateReport copies the slice header, not
\* the array: what the Results of the runs of view show once addResult ran
\* on entry <<g, i>>. The first loop and sort.Slice write to the array of
\* b.results; an append that does not fit leaves the old array as the first
\* loop left it
readThrough(view, g, i, source, res, order) ==
  IF view = <<>> \/ <<g, i>> \notin aliased THEN view
  ELSE LET old == benchGroups[g][i].results
           inPlace == updateLoop(old, ResourceNames, res, source, 1).results
           array == IF reallocates(old, caps[g][i], order) THEN inPlace
                    ELSE addResult(old, source, res, order)
           refs == runRefs(benchGroups, 1, 1)
       IN <<[view[1] EXCEPT !.Runs =
               [k \in DOMAIN @ |->
                  IF refs[k] = <<g, i>>
                  THEN [@[k] EXCEPT !.Results = SubSeq(array, 1, Len(@))]
                  ELSE @[k]]]>>

\* the measurements runBenchmark can hand to addResult for a side: each key
\* empty or not
Measurements(source) ==
  [ImportPath : {"p"}, Name : {"A"},
   CPU : [Key : {"", "key-cpu-" \o source},
          Total : {IF source = "base" THEN 30 ELSE 60}],
   AllocSpace : [Key : {"", "key-alloc-space-" \o source},
                 Total : {IF source = "base" THEN 88 ELSE 80}],
   AllocObjects : [Key : {"", "key-alloc-objects-" \o source},
                   Total : {IF source = "base" THEN 7 ELSE 9}]]

\* b.addResult(source, res) on entry i of group g
AddResult(g, i) ==
  /\ pc = "addResult"
  /\ numCalls < MaxCalls
  /\ g \in DOMAIN benchGroups
  /\ i \in DOMAIN benchGroups[g]
  /\ \E source \in Sides :
       \E res \in Measurements(source) :
         \E order \in iterationOrders(leftInM(benchGroups[g][i].results, source, res)) :
           /\ benchGroups' = [benchGroups EXCEPT ![g][i].results =
                                addResult(@, source, res, order)]
           /\ caps' = [caps EXCEPT ![g][i] =
                         capAfter(Len(benchGroups[g][i].results), @, Len(order))]
           /\ aliased' = IF reallocates(benchGroups[g][i].results, caps[g][i], order)
                         THEN aliased \ {<<g, i>>} ELSE aliased
           /\ seen' = readThrough(seen, g, i, source, res, order)
  /\ numCalls' = numCalls + 1
  /\ pc' = "generateReport"
  /\ UNCHANGED <<envVars, lockVars, reporterVars, uploadVars, hookVars, report, ctxDone, retErr, panicAt,
                 gitVars, pkgVars, groupVars, cleanVars, matchVars, runVars>>

\* b.generateReport(benchmarkGroups)
GenerateReport ==
  /\ pc = "generateReport"
  /\ report' = <<generateReport(benchGroups)>>
  /\ seen' = report'
  /\ aliased' = Range(runRefs(benchGroups, 1, 1))
  /\ pc' = "addResult"
  /\ UNCHANGED <<envVars, lockVars, reporterVars, uploadVars, hookVars, benchGroups, numCalls, caps, ctxDone,
                 retErr, panicAt, gitVars, pkgVars, groupVars, cleanVars,
                 matchVars, runVars>>

\* ------------------------------------------------------------------------
\* Rendering: the cells of a BenchmarkResult (package report)
\* ------------------------------------------------------------------------
\* the number a value cell shows: which humanize function formats which
\* number with which unit (nanoseconds are shown as seconds)
humanized(v, unit) ==
  IF unit = "bytes" THEN <<"IBytes", v.ProfileValue, "">>
  ELSE IF unit = "ns" THEN <<"SI of value/1e9", v.ProfileValue, "s">>
  ELSE <<"SI", v.ProfileValue, "">>

\* (v *BenchmarkValue) markdown(unit): the link [n](baseURL/share/key), or
\* n/a without a key
markdown(v, unit) ==
  IF v.FlamegraphKey = "" THEN <<"n/a">>
  ELSE <<"link", humanized(v, unit), v.FlamegraphKey>>

\* a base cell that ignores the key and always shows the total
BaseMarkdownMut(res) ==
  <<"link", humanized(res.BaseValue, res.Unit), res.BaseValue.FlamegraphKey>>

\* (r *BenchmarkResult) BaseMarkdown
BaseMarkdown(res) == markdown(res.BaseValue, res.Unit)

\* (r *BenchmarkResult) HeadMarkdown
HeadMarkdown(res) == markdown(res.HeadValue, res.Unit)

abs(x) == IF x < 0 THEN 0 - x ELSE x

\* the decimals kept when the digits after the second decimal round the
\* number away from zero
keptDigitsMut(num, den) ==
  IF ((num % den) * 100) % den = 0 THEN ((num % den) * 100) \div den
  ELSE ((num % den) * 100) \div den + 1

\* the decimals humanize.CommafWithDigits(f, 2) keeps of num/den: it cuts
\* the digits after the second decimal off the formatted number
keptDigits(num, den) == ((num % den) * 100) \div den

\* float64(head-base) / float64(base) * 100 through CommafWithDigits(_, 2):
\* the sign, the integer part and the two decimals kept. A base of zero
\* divides by zero: the float is an infinity or NaN
diffPercent(base, head) ==
  IF base = 0
  THEN [finite |-> FALSE, neg |-> head < 0, whole |-> 0, frac |-> 0]
  ELSE LET num == abs(head - base) * 100
           den == abs(base)
       IN [finite |-> TRUE,
           neg |-> (head - base < 0) # (base < 0),
           whole |-> num \div den,
           frac |-> keptDigits(num, den)]

\* (r *BenchmarkResult) DiffMarkdown
DiffMarkdown(res) ==
  IF res.BaseValue.FlamegraphKey = "" \/ res.HeadValue.FlamegraphKey = ""
  THEN <<"n/a">>
  ELSE <<"difflink",
         diffPercent(res.BaseValue.ProfileValue, res.HeadValue.ProfileValue),
         res.BaseValue.FlamegraphKey, res.HeadValue.FlamegraphKey>>

\* the three cells of the row of a result
cellsOf(res) ==
  [base |-> BaseMarkdown(res), head |-> HeadMarkdown(res),
   diff |-> DiffMarkdown(res)]

\* ------------------------------------------------------------------------
\* Rendering: the comment template and gitHubComment.render
\* ------------------------------------------------------------------------
\* a struct has the field the template asks for; a value without it makes
\* Execute return "can't evaluate field"
hasField(rec, f) == f \in DOMAIN rec

\* what Execute returns: the lines written to buf so far (blank lines left
\* out) and whether it stopped with an error
execFailed(out) == [out |-> out, err |-> TRUE]

execDone(out) == [out |-> out, err |-> FALSE]

RECURSIVE execResults(_, _, _)
\* {{- range .Results }}: one table row per result from position i on
execResults(results, i, out) ==
  IF i > Len(results) THEN out
  ELSE execResults(results, i + 1,
         Append(out, <<"row", results[i].Name, BaseMarkdown(results[i]),
                       HeadMarkdown(results[i]), DiffMarkdown(results[i])>>))

RECURSIVE execRuns(_, _, _)
\* {{- range .Report.Runs }}: one details block per run from position i on;
\* the summary line needs .Name and .Status of the run
execRuns(runs, i, out) ==
  IF i > Len(runs) THEN execDone(out)
  ELSE IF ~hasField(runs[i], "Status")
  THEN execFailed(Append(out, <<"<details>">>))
  ELSE execRuns(runs, i + 1,
         Append(execResults(runs[i].Results, 1,
                  out \o << <<"<details>">>,
                            <<"summary", runs[i].Name, runs[i].Status>>,
                            <<"| Resource | Base | Head | Diff % |">>,
                            <<"|----------|-----:|-----:|-------:|">> >>),
                <<"</details>">>))

\* the template executed on data ("fence" is the line opening or closing
\* the code block of the error): the header, then .Report.Error,
\* .Report.Finished, .Report.Message and .Compare are evaluated in this
\* order, then the runs are ranged over. data.Report is <<>> for a nil
\* pointer
execTemplate(data) ==
  LET out0 == << <<"### Benchmark Report">> >>
  IN IF data.Report = <<>> \/ ~hasField(data.Report[1], "Error")
     THEN execFailed(out0)
     ELSE LET re == data.Report[1] IN
       IF re.Error # ""
       THEN execDone(out0 \o << <<"fence">>, <<re.Error>>, <<"fence">> >>)
       ELSE IF ~hasField(re, "Finished") THEN execFailed(out0)
       ELSE LET out1 == Append(out0, IF re.Finished THEN <<"__Finished__">>
                                     ELSE <<"__In progress__">>) IN
         IF ~hasField(re, "Message") THEN execFailed(out1)
         ELSE LET out2 == IF re.Message # "" THEN Append(out1, <<re.Message>>)
                          ELSE out1 IN
           IF ~hasField(data, "Compare") THEN execFailed(out2)
           ELSE execRuns(re.Runs, 1,
                         IF data.Compare # "" THEN Append(out2, <<data.Compare>>)
                         ELSE out2)

\* the data render hands to the template
renderData(fin, re) ==
  [Report |-> re, Finished |-> fin, GitHubOwner |-> "my-org",
   GitHubRepo |-> "my-repo"]

\* (gh *gitHubComment) render: an error of Execute is logged and what was
\* written to buf is returned; fin is gh.finished
render(fin, re) == execTemplate(renderData(fin, re)).out

\* results as report.BenchmarkResult values
cpuResult(baseKey, headKey) ==
  [Name |-> "cpu", Unit |-> "ns",
   BaseValue |-> [ProfileValue |-> 10000000, FlamegraphKey |-> baseKey],
   HeadValue |-> [ProfileValue |-> 20000000, FlamegraphKey |-> headKey]]

allocResult(baseKey, headKey) ==
  [Name |-> "alloc_space", Unit |-> "bytes",
   BaseValue |-> [ProfileValue |-> 2048 * 1024, FlamegraphKey |-> baseKey],
   HeadValue |-> [ProfileValue |-> 2047 * 1024, FlamegraphKey |-> headKey]]

\* the reports handed to the reporters (*report.BenchmarkReport): without
\* runs, with runs about to be measured, with one run measured on both
\* sides, and with one run measured on the base side only
ReportValues ==
  LET rep(runs) == [BaseRef |-> "abcd", HeadRef |-> "ef00", Runs |-> runs]
      run(name, results) == [Name |-> name, Results |-> results]
  IN {rep(<<>>),
      rep(<<run("pkg1.BenchTestA", <<>>), run("pkg1.BenchTestB", <<>>)>>),
      rep(<<run("pkg1.BenchTestA",
                <<cpuResult("a-cpu-base", "a-cpu-head"),
                  allocResult("a-alloc-base", "a-alloc-head")>>),
            run("pkg1.BenchTestB", <<>>)>>),
      rep(<<run("pkg1.BenchTestA", <<cpuResult("a-cpu-base", "")>>)>>)}

\* ------------------------------------------------------------------------
\* The comment reporter (package github) and the owner of its channel
\* ------------------------------------------------------------------------
\* the variables of Compare, which the reporters leave alone
compareVars == <<envVars, lockVars, ctxDone, retErr, panicAt, gitVars, pkgVars,
                 groupVars, cleanVars, matchVars, runVars>>

\* the id GitHub gives the comment CreateComment creates
NewCommentID == 1

\* how Issues.CreateComment or Issues.EditComment can end
postOutcomes == {"ok", "failed"}

\* a reporter that never records the id of the comment it created
commentIDAfterMut(id, o) == 0

\* gh.commentID after postComment: an existing comment is edited; else
\* resp.GetID() of the created comment, 0 for the nil response of a
\* failed call
commentIDAfter(id, o) ==
  IF id # 0 THEN id ELSE IF o = "ok" THEN NewCommentID ELSE 0

\* body := gh.render(re) followed by gh.postComment(ctx, body) ending as o:
\* the first call reacts to the triggering comment, then the comment is
\* edited or created; fin is gh.finished at the call. react tells that the
\* call went through gh.react, id which comment it edited (0: it called
\* CreateComment)
postComment(fin, re, o) ==
  /\ reacted' = TRUE
  /\ commentID' = commentIDAfter(commentID, o)
  /\ posts' = Append(posts, [data |-> renderData(fin, re),
                             body |-> render(fin, re),
                             react |-> ~reacted,
                             edit |-> commentID # 0,
                             id |-> commentID,
                             err |-> o # "ok"])

\* the owner of the channel sends the next report: the channel is
\* unbuffered, so the send is pending until a reporter takes the report
Send ==
  /\ pc = "producing"
  /\ ch = <<>>
  /\ Len(sentLog) < MaxReports
  /\ \E re \in ReportValues :
       /\ ch' = <<re>>
       /\ sentLog' = Append(sentLog, re)
  /\ UNCHANGED <<compareVars, uploadVars, hookVars, resultVars, gitHubVars, renderVars, pc, stopCh,
                 runPc, received>>

\* a run loop that returns when a post failed
RunReceiveMut ==
  /\ runPc = "select"
  /\ ch # <<>>
  /\ \E o \in postOutcomes :
       /\ postComment(finished, ch, o)
       /\ runPc' = IF o = "ok" THEN "select" ELSE "done"
  /\ lastReport' = ch
  /\ ch' = <<>>
  /\ received' = received + 1
  /\ UNCHANGED <<compareVars, uploadVars, hookVars, resultVars, renderVars, pc, finished, stopCh,
                 sentLog>>

\* run, case report := <-gh.ch: the report is rendered and posted, an
\* error of the post is logged, and the report becomes lastReport
RunReceive ==
  /\ runPc = "select"
  /\ ch # <<>>
  /\ \E o \in postOutcomes : postComment(finished, ch, o)
  /\ lastReport' = ch
  /\ ch' = <<>>
  /\ received' = received + 1
  /\ UNCHANGED <<compareVars, uploadVars, hookVars, resultVars, renderVars, pc, finished, stopCh,
                 runPc, sentLog>>

\* a run loop whose exit posts the last report without setting gh.finished
RunStopMut ==
  /\ runPc = "select"
  /\ stopCh
  /\ \E o \in postOutcomes : postComment(finished, lastReport, o)
  /\ runPc' = "done"
  /\ UNCHANGED <<compareVars, uploadVars, hookVars, resultVars, renderVars, pc, finished, lastReport,
                 ch, stopCh, sentLog, received>>

\* run, case <-gh.stopCh: return, and the deferred function sets
\* gh.finished, renders lastReport and posts it
RunStop ==
  /\ runPc = "select"
  /\ stopCh
  /\ finished' = TRUE
  /\ \E o \in postOutcomes : postComment(TRUE, lastReport, o)
  /\ runPc' = "done"
  /\ UNCHANGED <<compareVars, uploadVars, hookVars, resultVars, renderVars, pc, lastReport, ch, stopCh,
                 sentLog, received>>

\* (gh *gitHubComment) Stop up to close(gh.stopCh), called by the owner of
\* the channel once its last send returned
Stop ==
  /\ pc = "producing"
  /\ ch = <<>>
  /\ stopCh' = TRUE
  /\ pc' = "stopping"
  /\ UNCHANGED <<compareVars, uploadVars, hookVars, resultVars, gitHubVars, renderVars, ch, runPc,
                 sentLog, received>>

\* a Stop that returns without waiting for run
StopReturnMut ==
  /\ pc = "stopping"
  /\ pc' = "stopped"
  /\ UNCHANGED <<compareVars, reportVars>>

\* Stop: gh.wg.Wait() returns once run returned
StopReturn ==
  /\ pc = "stopping"
  /\ runPc = "done"
  /\ pc' = "stopped"
  /\ UNCHANGED <<compareVars, uploadVars, hookVars, reportVars>>

\* ------------------------------------------------------------------------
\* The no-op reporter (package report)
\* ------------------------------------------------------------------------
\* the goroutine NewNoop starts for a channel that is not nil:
\* for range ch {} takes the next report and drops it
NoopReceive ==
  /\ runPc = "range"
  /\ ch # <<>>
  /\ ch' = <<>>
  /\ received' = received + 1
  /\ UNCHANGED <<compareVars, uploadVars, hookVars, resultVars, gitHubVars, renderVars, pc, stopCh,
                 runPc, sentLog>>

\* a Stop that ends the goroutine
NoopStopMut ==
  /\ pc = "producing"
  /\ ch = <<>>
  /\ ~stopCh
  /\ stopCh' = TRUE
  /\ runPc' = "done"
  /\ UNCHANGED <<compareVars, uploadVars, hookVars, resultVars, gitHubVars, renderVars, pc, ch,
                 sentLog, received>>

\* (noopReporter) Stop returns nil and touches nothing: the goroutine goes
\* on ranging over the channel
NoopStop ==
  /\ pc = "producing"
  /\ ch = <<>>
  /\ ~stopCh
  /\ stopCh' = TRUE
  /\ UNCHANGED <<compareVars, uploadVars, hookVars, resultVars, gitHubVars, renderVars, pc, ch, runPc,
                 sentLog, received>>

\* the template renders the row of cellIn: {{.BaseMarkdown}},
\* {{.HeadMarkdown}} and {{.DiffMarkdown}}
RenderCells ==
  /\ pc = "row"
  /\ cellIn # <<>>
  /\ cellOut' = <<cellsOf(cellIn[1])>>
  /\ pc' = "rendered"
  /\ UNCHANGED <<compareVars, uploadVars, hookVars, resultVars, gitHubVars, chanVars, rendered, cellIn>>

\* a render that remembers in the reporter that it rendered
RenderMut ==
  /\ pc = "render"
  /\ Len(rendered) < MaxRenders
  /\ rendered' = Append(rendered, render(finished, report))
  /\ reacted' = TRUE
  /\ UNCHANGED <<compareVars, uploadVars, hookVars, resultVars, chanVars, pc, lastReport, finished,
                 posts, commentID, cellIn, cellOut>>

\* a call gh.render(report), as the test makes twice in a row: it fills a
\* strings.Builder of its own and assigns to no field
Render ==
  /\ pc = "render"
  /\ Len(rendered) < MaxRenders
  /\ rendered' = Append(rendered, render(finished, report))
  /\ UNCHANGED <<compareVars, uploadVars, hookVars, resultVars, gitHubVars, chanVars, pc, cellIn,
                 cellOut>>

\* ------------------------------------------------------------------------
\* The sub-profiles of an upload response (runBenchmark)
\* ------------------------------------------------------------------------
\* result := benchmarkResult{...} of runBenchmark before the profiles are
\* looked at
newBenchmarkResult ==
  [ImportPath |-> "pkg/a", Name |-> "BenchmarkA",
   AllocObjects |-> emptyProfileResult,
   AllocSpace |-> emptyProfileResult,
   CPU |-> emptyProfileResult]

\* runBenchmark, for _, sub := range res.SubProfiles: the switch on
\* sub.Name stores the key of the sub-profiles whose name it knows
SetKeys ==
  /\ pc = "uploaded"
  /\ subProfiles # <<>>
  /\ keyed' = <<setKeys(newBenchmarkResult, subProfiles[1], 1)>>
  /\ pc' = "keyed"
  /\ UNCHANGED <<compareVars, hookVars, resultVars, reporterVars, subProfiles>>

\* ------------------------------------------------------------------------
\* The comment hook (package github): parseCommandLine and commentHook
\* ------------------------------------------------------------------------
\* the default of --bot-name
BotName == "@pyrobench"

\* a word of the comment body, as far as the parser looks at it: the text
\* before its first "=", whether it has one, and the characters after it
word(s) == [name |-> s, eq |-> FALSE, rest |-> <<>>]

option(k, v) == [name |-> k, eq |-> TRUE, rest |-> v]

\* the end of a line
NewLine == word("\n")

RECURSIVE scanLines(_, _)
\* for scanner.Scan() { ... scanner.Text() }: the lines of the words of
\* text, cur being the words read of the current line
scanLines(text, cur) ==
  IF text = <<>> THEN (IF cur = <<>> THEN <<>> ELSE <<cur>>)
  ELSE IF Head(text) = NewLine THEN <<cur>> \o scanLines(Tail(text), <<>>)
  ELSE scanLines(Tail(text), Append(cur, Head(text)))

\* strings.Index(scanner.Text(), args.BotName): the position of the first
\* word that is the bot name, 0 when there is none
botIndex(line) ==
  IF \E i \in DOMAIN line : line[i].name = BotName
  THEN CHOOSE i \in DOMAIN line :
         /\ line[i].name = BotName
         /\ \A j \in 1..(i - 1) : line[j].name # BotName
  ELSE 0

Digits == <<"0", "1", "2", "3", "4", "5", "6", "7", "8", "9">>

isDigit(c) == \E d \in DOMAIN Digits : Digits[d] = c

digitVal(c) == (CHOOSE d \in DOMAIN Digits : Digits[d] = c) - 1

RECURSIVE digitsValue(_, _)
digitsValue(cs, acc) ==
  IF cs = <<>> THEN acc ELSE digitsValue(Tail(cs), acc * 10 + digitVal(Head(cs)))

\* strconv.Atoi on a sequence of characters: an optional sign and at least
\* one digit, nothing else
Atoi(cs) ==
  LET signed == cs # <<>> /\ Head(cs) \in {"+", "-"}
      body == IF signed THEN Tail(cs) ELSE cs
  IN IF body = <<>> \/ \E i \in DOMAIN body : ~isDigit(body[i])
     THEN [err |-> TRUE, n |-> 0]
     ELSE [err |-> FALSE,
           n |-> IF signed /\ Head(cs) = "-" THEN 0 - digitsValue(body, 0)
                 ELSE digitsValue(body, 0)]

\* what parseCommandLine hands back: the result, the error, or a run-time
\* panic
parseEnd(result, err, crashed) == [result |-> result, err |-> err, panic |-> crashed]

RECURSIVE fieldLoop(_, _, _, _)
\* the loop over strings.Fields of the rest of the line from field idx on;
\* current is <<>> for a nil *BenchmarkArg. A field without "=" starts a
\* new BenchmarkArg, count= and time= set the fields of current, which is
\* dereferenced while nil when no such field came before
fieldLoop(fields, idx, current, result) ==
  IF idx > Len(fields)
  THEN parseEnd(IF current # <<>> THEN Append(result, current[1]) ELSE result,
                None, FALSE)
  ELSE LET field == fields[idx]
           res1 == IF ~field.eq /\ current # <<>>
                   THEN Append(result, current[1]) ELSE result
           cur1 == IF ~field.eq
                   THEN <<[Regex |-> field.name, Time |-> <<>>, Count |-> <<>>]>>
                   ELSE current
       IN IF field.eq /\ field.name = "count"
          THEN IF Atoi(field.rest).err
               THEN parseEnd(<<>>, "failed to parse count", FALSE)
               ELSE IF cur1 = <<>> THEN parseEnd(<<>>, None, TRUE)
               ELSE fieldLoop(fields, idx + 1,
                              <<[cur1[1] EXCEPT !.Count = <<Atoi(field.rest).n>>]>>,
                              res1)
          ELSE IF field.eq /\ field.name = "time"
          THEN IF cur1 = <<>> THEN parseEnd(<<>>, None, TRUE)
               ELSE fieldLoop(fields, idx + 1,
                              <<[cur1[1] EXCEPT !.Time = <<field.rest>>]>>, res1)
          ELSE fieldLoop(fields, idx + 1, cur1, res1)

RECURSIVE lineLoop(_, _, _)
\* the loop over the lines from line i on: a line without the bot name is
\* skipped, the fields after the bot name are parsed
lineLoop(lines, i, result) ==
  IF i > Len(lines) THEN parseEnd(result, None, FALSE)
  ELSE LET pos == botIndex(lines[i]) IN
    IF pos = 0 THEN lineLoop(lines, i + 1, result)
    ELSE LET out == fieldLoop(SubSeq(lines[i], pos + 1, Len(lines[i])), 1,
                              <<>>, result)
         IN IF out.panic \/ out.err # None THEN out
            ELSE lineLoop(lines, i + 1, out.result)

\* parseCommandLine(args, r): in is the words of the body and whether
\* reading it ends with an error, which scanner.Err() reports after the loop
parseCommandLine(in) ==
  LET out == lineLoop(scanLines(in.words, <<>>), 1, <<>>)
  IN IF out.panic \/ out.err # None THEN out
     ELSE IF in.readErr THEN parseEnd(<<>>, "failed to read input", FALSE)
     ELSE out

\* a call of parseCommandLine on the comment body
ParseCommandLine ==
  /\ pc = "parse"
  /\ stdin # <<>>
  /\ parsed' = <<parseCommandLine(stdin[1])>>
  /\ pc' = "parsed"
  /\ UNCHANGED <<compareVars, uploadVars, resultVars, reporterVars, hookArgs,
                 hookLog, stdin>>

\* strings.ToLower on the author associations GitHub sends and others
ToLower(s) ==
  IF s = "OWNER" THEN "owner"
  ELSE IF s = "MEMBER" THEN "member"
  ELSE IF s = "Contributor" THEN "contributor"
  ELSE IF s = "NONE" THEN "none"
  ELSE s

\* what commentHook did, in order: the calls that read the comment body or
\* contact GitHub, then how it ended
call(what) == <<"call", what>>

return(err) == <<"return", err>>

crash(at) == <<"panic", at>>

\* a hook that looks at the author association only once it parsed the body
commentHookMut(args, ctx, in, getOutcome) ==
  IF ctx.EventName # "issue_comment" THEN <<return("unsupported event_name")>>
  ELSE IF ctx.Action # "created" THEN <<return("unsupported action")>>
  ELSE <<call("parseCommandLine")>> \o
       (IF ToLower(ctx.AuthorAssociation) \notin args.AllowedAssociations
        THEN <<return("author association is not allowed")>>
        ELSE <<return(None)>>)

\* commentHook(ctx, logger, args, ghContext, ghToken) with the body in on
\* standard input and PullRequests.Get ending as getOutcome; Repository is
\* given as strings.SplitN(ghContext.Repository, "/", 2) yields it
commentHook(args, ctx, in, getOutcome) ==
  IF ctx.EventName # "issue_comment" THEN <<return("unsupported event_name")>>
  ELSE IF ctx.Action # "created" THEN <<return("unsupported action")>>
  ELSE IF ToLower(ctx.AuthorAssociation) \notin args.AllowedAssociations
  THEN <<return("author association is not allowed")>>
  ELSE LET benchmarks == parseCommandLine(in) IN
    <<call("parseCommandLine")>> \o
    (IF benchmarks.panic THEN <<crash("parseCommandLine")>>
     ELSE IF benchmarks.err # None
     THEN <<return("failed to parse command line")>>
     ELSE IF Len(benchmarks.result) = 0 THEN <<return(None)>>
     ELSE IF Len(ctx.Repository) < 2 THEN <<crash("orgRepo[1]")>>
     ELSE IF getOutcome # "ok"
     THEN <<call("PullRequests.Get"), return("failed to get pull request")>>
     ELSE <<call("PullRequests.Get"), return(None)>>)

\* a run of commentHook
CommentHook ==
  /\ pc = "hook"
  /\ hookArgs # <<>>
  /\ \E getOutcome \in {"ok", "failed"} :
       hookLog' = commentHook(hookArgs[1].args, hookArgs[1].ghContext,
                              stdin[1], getOutcome)
  /\ pc' = "hooked"
  /\ UNCHANGED <<compareVars, uploadVars, resultVars, reporterVars, hookArgs,
                 stdin, parsed>>

\* ------------------------------------------------------------------------
\* Specifications
\* ------------------------------------------------------------------------
PathSeq == <<"p", "q", "r", "s", "t", "u", "v", "w">>

\* revisions of up to MaxPkgs packages together, the i-th package of a
\* revision being PathSeq[i]; a tested package lists one benchmark, and
\* between base and head the first package's binary is unchanged while the
\* others' binaries differ
CtlPkgs(i, side) ==
  {[path |-> PathSeq[i], tests |-> FALSE, hash |-> NoHash, names |-> <<>>],
   [path |-> PathSeq[i], tests |-> TRUE,
    hash |-> IF side = "head" /\ i > 1 THEN "h2" ELSE "h1", names |-> <<"A">>]}

RECURSIVE CtlListsOfLen(_, _)
\* the lists of n packages of a revision, those without test files coming
\* first
CtlListsOfLen(side, n) ==
  IF n = 0 THEN {<<>>}
  ELSE UNION {{Append(s, p) :
                 p \in {q \in CtlPkgs(n, side) :
                          (n > 1 /\ s[n - 1].tests) => q.tests}} :
              s \in CtlListsOfLen(side, n - 1)}

CtlLists(side) == UNION {CtlListsOfLen(side, n) : n \in 0..MaxPkgs}

numTested(list) == Cardinality({i \in DOMAIN list : list[i].tests})

CtlTrees ==
  {t \in [base : CtlLists("base"), head : CtlLists("head")] :
     /\ Len(t.base) + Len(t.head) <= MaxPkgs
     /\ numTested(t.base) + numTested(t.head) <= MaxTested}

\* every bench.results is a nil slice and no report was handed out
noSlices ==
  /\ caps = [g \in DOMAIN benchGroups |-> [i \in DOMAIN benchGroups[g] |-> 0]]
  /\ aliased = {}
  /\ seen = <<>>

\* no upload response is looked at, no comment hook runs
noUpload ==
  /\ subProfiles = <<>>
  /\ keyed = <<>>

noHook ==
  /\ hookArgs = <<>>
  /\ hookLog = <<>>
  /\ stdin = <<>>
  /\ parsed = <<>>

\* no reporter was started and nothing was sent
noChannel ==
  /\ ch = <<>>
  /\ stopCh = FALSE
  /\ runPc = "none"
  /\ lastReport = <<>>
  /\ finished = FALSE
  /\ posts = <<>>
  /\ commentID = 0
  /\ reacted = FALSE
  /\ sentLog = <<>>
  /\ received = 0

\* no reporter was started and nothing is rendered
noReporter ==
  /\ noChannel
  /\ rendered = <<>>
  /\ cellIn = <<>>
  /\ cellOut = <<>>

\* no report is built and no reporter runs
noReporting ==
  /\ benchGroups = <<>>
  /\ report = <<>>
  /\ numCalls = 0
  /\ noSlices
  /\ noReporter

\* the state at the entry of Compare
InitCompare ==
  /\ noUpload
  /\ noHook
  /\ pc = "prerequisites"
  /\ ctxDone = FALSE
  /\ retErr = None
  /\ panicAt = None
  /\ baseCommit = ""
  /\ headCommit = ""
  /\ worktree = FALSE
  /\ basePackages = <<>>
  /\ headPackages = <<>>
  /\ launched = 0
  /\ taskPc = [base |-> <<>>, head |-> <<>>]
  /\ sem = 0
  /\ gErr = None
  /\ gCancelled = FALSE
  /\ cleanups = <<>>
  /\ cleaned = <<>>
  /\ tmpFiles = {}
  /\ cleanupErr = <<>>
  /\ r = newResultMaps
  /\ plan = <<>>
  /\ planBuilt = 0
  /\ planIdx = 1
  /\ sidePc = "base"
  /\ running = {}
  /\ execLog = <<>>
  /\ lastRun = noRun
  /\ mtx = 0
  /\ addPc = <<>>
  /\ addLocal = <<>>
  /\ noReporting

Init ==
  /\ tree \in CtlTrees
  /\ InitCompare

Next ==
  \/ CtxCancel
  \/ Prerequisites
  \/ GitRevParseBase
  \/ GitRevParseHead
  \/ GitCheckoutBase
  \/ DiscoverHead
  \/ DiscoverBase
  \/ Launch
  \/ \E side \in Sides, i \in 1..MaxPkgs : CompileTest(side, i)
  \/ \E side \in Sides, i \in 1..MaxPkgs : ListBenchmarks(side, i)
  \/ Wait
  \/ CompareResult
  \/ SkipSide
  \/ RunBenchmarkStart
  \/ RunBenchmarkEnd
  \/ ReturnNil
  \/ Cleanup

Spec == Init /\ [][Next]_vars

\* the packages of a revision after compileTest and listBenchmarks succeeded
\* for each of them
compiled(list, side) ==
  [i \in DOMAIN list |->
     IF list[i].tests
     THEN [path |-> list[i].path, tests |-> TRUE, testBinary |-> <<side, i>>,
           testBinaryHash |-> list[i].hash, benchmarkNames |-> list[i].names]
     ELSE discoverPackages(list)[i]]

RECURSIVE binCleanups(_, _, _)
\* the removals registered by compileTest for the tested packages of a
\* revision, from position i on
binCleanups(list, side, i) ==
  IF i > Len(list) THEN <<>>
  ELSE (IF list[i].tests THEN <<(<<"bin", side, i>>)>> ELSE <<>>)
       \o binCleanups(list, side, i + 1)

MatchTrees ==
  [base : TreeLists(MatchPaths, Hashes, NameLists),
   head : TreeLists(MatchPaths, Hashes, NameLists)]

\* the state in which g.Wait returned nil: every package of both revisions
\* compiled and listed, tasks having run in launch order; the specification
\* follows Compare from there to its return statement or panic, the teardown
\* that comes next being part of Spec
InitMatch ==
  /\ noUpload
  /\ noHook
  /\ tree \in MatchTrees
  /\ pc = "compareResult"
  /\ ctxDone = FALSE
  /\ retErr = None
  /\ panicAt = None
  /\ baseCommit = "basesha"
  /\ headCommit = "headsha"
  /\ worktree = TRUE
  /\ basePackages = compiled(tree.base, "base")
  /\ headPackages = compiled(tree.head, "head")
  /\ launched = Len(tree.base) + Len(tree.head)
  /\ taskPc = [base |-> [i \in DOMAIN tree.base |-> "done"],
               head |-> [i \in DOMAIN tree.head |-> "done"]]
  /\ sem = 0
  /\ gErr = None
  /\ gCancelled = TRUE
  /\ cleanups = <<(<<"worktree">>)>> \o binCleanups(tree.base, "base", 1)
                   \o binCleanups(tree.head, "head", 1)
  /\ cleaned = <<>>
  /\ cleanupErr = <<>>
  /\ tmpFiles = {<<f[2], f[3]>> : f \in Range(binCleanups(tree.base, "base", 1)
                                              \o binCleanups(tree.head, "head", 1))}
  /\ r = newResultMaps
  /\ plan = <<>>
  /\ planBuilt = 0
  /\ planIdx = 1
  /\ sidePc = "base"
  /\ running = {}
  /\ execLog = <<>>
  /\ lastRun = noRun
  /\ mtx = 0
  /\ addPc = <<>>
  /\ addLocal = <<>>
  /\ noReporting

NextMatch ==
  \/ CtxCancel
  \/ CompareResult
  \/ SkipSide
  \/ RunBenchmarkStart
  \/ RunBenchmarkEnd
  \/ ReturnNil

SpecMatch == InitMatch /\ [][NextMatch]_vars

\* the tested head packages whose tasks are in flight together
AddTrees ==
  {[base |-> <<>>,
    head |-> [i \in 1..n |->
                [path |-> PathSeq[i], tests |-> TRUE, hash |-> "h1",
                 names |-> <<"A">>]]] :
     n \in 1..(IF MaxAdders < Limit THEN MaxAdders ELSE Limit)}

\* the state of phase 1 in which the tasks of all packages were launched and
\* none has created its temporary file yet
InitAdd ==
  /\ noUpload
  /\ noHook
  /\ tree \in AddTrees
  /\ pc = "phase1"
  /\ ctxDone = FALSE
  /\ retErr = None
  /\ panicAt = None
  /\ baseCommit = "basesha"
  /\ headCommit = "headsha"
  /\ worktree = TRUE
  /\ basePackages = <<>>
  /\ headPackages = discoverPackages(tree.head)
  /\ launched = Len(tree.head)
  /\ taskPc = [base |-> <<>>, head |-> [i \in DOMAIN tree.head |-> "compileTest"]]
  /\ sem = Len(tree.head)
  /\ gErr = None
  /\ gCancelled = FALSE
  /\ cleanups = <<(<<"worktree">>)>>
  /\ cleaned = <<>>
  /\ tmpFiles = {}
  /\ cleanupErr = <<>>
  /\ r = newResultMaps
  /\ plan = <<>>
  /\ planBuilt = 0
  /\ planIdx = 1
  /\ sidePc = "base"
  /\ running = {}
  /\ execLog = <<>>
  /\ lastRun = noRun
  /\ mtx = 0
  /\ addPc = [i \in DOMAIN tree.head |-> "createTemp"]
  /\ addLocal = [i \in DOMAIN tree.head |-> <<>>]
  /\ noReporting

NextAdd ==
  \/ \E i \in 1..Limit : CreateTemp(i)
  \/ \E i \in 1..Limit : AddLock(i)
  \/ \E i \in 1..Limit : AddRead(i)
  \/ \E i \in 1..Limit : AddStore(i)
  \/ \E i \in 1..Limit : AddUnlock(i)

SpecAdd == InitAdd /\ [][NextAdd]_vars

\* a plan entry without results yet
newBench(key) == [key |-> key, results |-> <<>>]

\* plan entries in groups, as handed to generateReport
ResultGroups ==
  LET a == newBench(<<"p", "A">>)
      b == newBench(<<"q", "B">>)
  IN {<< <<a>> >>, << <<a, b>> >>, << <<b>>, <<a>> >>, << <<>>, <<a>> >>}

\* the state of phase 2 before the first report, nothing being measured yet
InitResult ==
  /\ noUpload
  /\ noHook
  /\ tree = [base |-> <<>>, head |-> <<>>]
  /\ pc = "generateReport"
  /\ ctxDone = FALSE
  /\ retErr = None
  /\ panicAt = None
  /\ baseCommit = "basesha"
  /\ headCommit = "headsha"
  /\ worktree = TRUE
  /\ basePackages = <<>>
  /\ headPackages = <<>>
  /\ launched = 0
  /\ taskPc = [base |-> <<>>, head |-> <<>>]
  /\ sem = 0
  /\ gErr = None
  /\ gCancelled = TRUE
  /\ cleanups = <<(<<"worktree">>)>>
  /\ cleaned = <<>>
  /\ tmpFiles = {}
  /\ cleanupErr = <<>>
  /\ r = newResultMaps
  /\ plan = <<>>
  /\ planBuilt = 1
  /\ planIdx = 1
  /\ sidePc = "base"
  /\ running = {}
  /\ execLog = <<>>
  /\ lastRun = noRun
  /\ mtx = 0
  /\ addPc = <<>>
  /\ addLocal = <<>>
  /\ benchGroups \in ResultGroups
  /\ report = <<>>
  /\ numCalls = 0
  /\ noSlices
  /\ noReporter

NextResult ==
  \/ \E g \in 1..2, i \in 1..2 : AddResult(g, i)
  \/ GenerateReport

SpecResult == InitResult /\ [][NextResult]_vars

\* the variables of Compare when only results or reporters are looked at
noCompare ==
  /\ tree = [base |-> <<>>, head |-> <<>>]
  /\ ctxDone = FALSE
  /\ retErr = None
  /\ panicAt = None
  /\ baseCommit = "basesha"
  /\ headCommit = "headsha"
  /\ worktree = TRUE
  /\ basePackages = <<>>
  /\ headPackages = <<>>
  /\ launched = 0
  /\ taskPc = [base |-> <<>>, head |-> <<>>]
  /\ sem = 0
  /\ gErr = None
  /\ gCancelled = TRUE
  /\ cleanups = <<(<<"worktree">>)>>
  /\ cleaned = <<>>
  /\ tmpFiles = {}
  /\ cleanupErr = <<>>
  /\ r = newResultMaps
  /\ plan = <<>>
  /\ planBuilt = 1
  /\ planIdx = 1
  /\ sidePc = "base"
  /\ running = {}
  /\ execLog = <<>>
  /\ lastRun = noRun
  /\ mtx = 0
  /\ addPc = <<>>
  /\ addLocal = <<>>

\* no result was added and no report generated
noResults ==
  /\ benchGroups = <<>>
  /\ report = <<>>
  /\ numCalls = 0
  /\ noSlices

\* newCommentReporterFromGitHubCommon returned: the reporter's goroutine is
\* in run and the owner of the channel is about to send reports
InitReporter ==
  /\ noUpload
  /\ noHook
  /\ noCompare
  /\ noResults
  /\ pc = "producing"
  /\ ch = <<>>
  /\ stopCh = FALSE
  /\ runPc = "select"
  /\ lastReport = <<>>
  /\ finished = FALSE
  /\ posts = <<>>
  /\ commentID = 0
  /\ reacted = FALSE
  /\ sentLog = <<>>
  /\ received = 0
  /\ rendered = <<>>
  /\ cellIn = <<>>
  /\ cellOut = <<>>

NextReporter ==
  \/ Send
  \/ RunReceive
  \/ RunStop
  \/ Stop
  \/ StopReturn

SpecReporter == InitReporter /\ [][NextReporter]_vars

\* the totals and keys of the values of a BenchmarkResult: the totals of the
\* tests and smaller ones, each key empty or not
CellTotals == {0, 100, 200, 10000000, 20000000, 2048 * 1024, 2047 * 1024}

CellValues(key) == [ProfileValue : CellTotals, FlamegraphKey : {"", key}]

CellResults ==
  UNION {[Name : {name}, Unit : {unitOf(name)}, BaseValue : CellValues("k-base"),
          HeadValue : CellValues("k-head")] : name \in ResourceNames}

\* a result about to be rendered as a table row
InitCell ==
  /\ noUpload
  /\ noHook
  /\ noCompare
  /\ noResults
  /\ noChannel
  /\ rendered = <<>>
  /\ pc = "row"
  /\ \E res \in CellResults : cellIn = <<res>>
  /\ cellOut = <<>>

NextCell == RenderCells

SpecCell == InitCell /\ [][NextCell]_vars

\* a comment reporter in any state and a report, or nil, to render
InitRender ==
  /\ noUpload
  /\ noHook
  /\ noCompare
  /\ benchGroups = <<>>
  /\ numCalls = 0
  /\ pc = "render"
  /\ report \in {<<>>} \cup {<<re>> : re \in ReportValues}
  /\ caps = <<>>
  /\ aliased = {}
  /\ seen = report
  /\ finished \in BOOLEAN
  /\ commentID \in {0, NewCommentID}
  /\ reacted \in BOOLEAN
  /\ ch = <<>>
  /\ stopCh = FALSE
  /\ runPc = "none"
  /\ lastReport = <<>>
  /\ posts = <<>>
  /\ sentLog = <<>>
  /\ received = 0
  /\ rendered = <<>>
  /\ cellIn = <<>>
  /\ cellOut = <<>>

NextRender == Render

SpecRender == InitRender /\ [][NextRender]_vars

\* NewNoop(ch) returned for a channel that is not nil
InitNoop ==
  /\ noUpload
  /\ noHook
  /\ noCompare
  /\ noResults
  /\ pc = "producing"
  /\ ch = <<>>
  /\ stopCh = FALSE
  /\ runPc = "range"
  /\ lastReport = <<>>
  /\ finished = FALSE
  /\ posts = <<>>
  /\ commentID = 0
  /\ reacted = FALSE
  /\ sentLog = <<>>
  /\ received = 0
  /\ rendered = <<>>
  /\ cellIn = <<>>
  /\ cellOut = <<>>

NextNoop ==
  \/ Send
  \/ NoopReceive
  \/ NoopStop

\* the goroutine of NewNoop is blocked on the channel only: the scheduler
\* runs it whenever a send is pending
SpecNoop == InitNoop /\ [][NextNoop]_vars /\ WF_vars(NoopReceive)

\* the names a sharing service gave its sub-profiles over time, and one
\* that was never tracked
SubNames == {"cpu", "allocs", "bytes", "alloc_objects", "alloc_space",
             "inuse_space"}

SubKeys == {"key-a", "key-b"}

\* the lists of sub-profiles a response can carry
SubProfileLists == SeqsUpTo([Name : SubNames, Key : SubKeys], MaxSubs)

\* uploadProfile returned a response
InitUpload ==
  /\ noCompare
  /\ noResults
  /\ noReporter
  /\ noHook
  /\ pc = "uploaded"
  /\ \E subs \in SubProfileLists : subProfiles = <<subs>>
  /\ keyed = <<>>

NextUpload == SetKeys

SpecUpload == InitUpload /\ [][NextUpload]_vars

\* the words of a comment: the bot name, regexes, options with numeric and
\* non-numeric values, an option the parser does not know, and line ends
Words ==
  {word(BotName), word("BenchmarkA"), word("BenchmarkB"),
   option("count", <<"5">>), option("count", <<"1", "0">>),
   option("count", <<"x">>), option("time", <<"2", "s">>),
   option("cpu", <<"4">>), NewLine}

\* the comment bodies of up to MaxWords words
Bodies == [words : SeqsUpTo(Words, MaxWords), readErr : BOOLEAN]

\* a comment body on standard input, about to be parsed
InitParse ==
  /\ noCompare
  /\ noResults
  /\ noReporter
  /\ noUpload
  /\ pc = "parse"
  /\ hookArgs = <<>>
  /\ hookLog = <<>>
  /\ \E in \in Bodies : stdin = <<in>>
  /\ parsed = <<>>

NextParse == ParseCommandLine

SpecParse == InitParse /\ [][NextParse]_vars

\* the default of --allowed-associations
DefaultAssociations == {"collaborator", "contributor", "member", "owner"}

\* the github contexts of a workflow run: event names, actions, author
\* associations as GitHub sends them and as others might, repositories
HookContexts ==
  [EventName : {"issue_comment", "pull_request_review_comment"},
   Action : {"created", "edited"},
   AuthorAssociation : {"OWNER", "MEMBER", "NONE", "owner"},
   Repository : {<<"my-org", "my-repo">>, <<"my-repo">>}]

HookArgs == [AllowedAssociations : {DefaultAssociations, {"owner"}, {"OWNER"}}]

\* comment bodies: no mention, a command, an option without a regex, a
\* count that is not a number
HookBodies ==
  {[words |-> ws, readErr |-> FALSE] :
     ws \in {<<word("BenchmarkA")>>,
             <<word(BotName), word("BenchmarkA"), option("count", <<"5">>)>>,
             <<word(BotName), option("count", <<"5">>)>>,
             <<word(BotName), word("BenchmarkA"), option("count", <<"x">>)>>}}

\* CommentHook decoded GITHUB_CONTEXT and is about to call commentHook
InitHook ==
  /\ noCompare
  /\ noResults
  /\ noReporter
  /\ noUpload
  /\ pc = "hook"
  /\ \E args \in HookArgs, ctx \in HookContexts :
       hookArgs = <<[args |-> args, ghContext |-> ctx]>>
  /\ hookLog = <<>>
  /\ \E in \in HookBodies : stdin = <<in>>
  /\ parsed = <<>>

NextHook == CommentHook

SpecHook == InitHook /\ [][NextHook]_vars

\* ------------------------------------------------------------------------
\* Properties: vocabulary
\* ------------------------------------------------------------------------
RECURSIVE keySeq(_)
\* the benchmark keys of a revision in enumeration order
keySeq(pkgs) ==
  IF pkgs = <<>> THEN <<>>
  ELSE [j \in DOMAIN Head(pkgs).benchmarkNames |->
          <<Head(pkgs).path, Head(pkgs).benchmarkNames[j]>>]
       \o keySeq(Tail(pkgs))

baseKeys == Range(keySeq(basePackages))
headKeys == Range(keySeq(headPackages))
bothKeys == baseKeys \cap headKeys
onlyHeadKeys == headKeys \ baseKeys
onlyBaseKeys == baseKeys \ headKeys

\* the package of a revision that lists key k
pkgOf(pkgs, k) ==
  CHOOSE i \in DOMAIN pkgs :
    pkgs[i].path = k[1] /\ k[2] \in Range(pkgs[i].benchmarkNames)

hashDiffers(k) ==
  basePackages[pkgOf(basePackages, k)].testBinaryHash
    # headPackages[pkgOf(headPackages, k)].testBinaryHash

\* the key has to be measured again
shouldRun(k) == k \notin bothKeys \/ hashDiffers(k)

expectedReason(k) ==
  IF k \notin baseKeys THEN reasonBaseMissing
  ELSE IF k \notin headKeys THEN reasonHeadMissing
  ELSE reasonCodeChange

planKeys == {plan[i].key : i \in DOMAIN plan}

compareResultPanic == "compareResult: res.head.meta.ImportPath"

\* compareResult was called
compared == planBuilt > 0

\* compareResult returned its plan to Compare
planReturned == compared /\ panicAt # compareResultPanic

\* Compare returned nil: the deferred cleanup cannot change the result
returnedNil == pc \in {"cleanup", "done"} /\ retErr = None /\ panicAt = None

\* ------------------------------------------------------------------------
\* C1
\* ------------------------------------------------------------------------
\* C1: once compareResult has been called, every benchmark key found on
\* either revision is in the execution plan if and only if it is present on
\* one side only or its two packages' test-binary hashes differ.
C1_PlanIffOneSidedOrChanged ==
  compared =>
    \A k \in baseKeys \cup headKeys : (k \in planKeys) <=> shouldRun(k)

\* ------------------------------------------------------------------------
\* C2
\* ------------------------------------------------------------------------
\* C2: a key present only on head has a plan entry with reason "benchmark
\* does not exist in base" and no base reference, no base-side benchmark
\* process is ever started for it, and when Compare returns nil its head side
\* was executed.
C2_OnlyHeadRunsOnHead ==
  /\ \A i \in DOMAIN plan :
       plan[i].key \in onlyHeadKeys =>
         /\ plan[i].reason = reasonBaseMissing
         /\ plan[i].base = 0
         /\ plan[i].head = pkgOf(headPackages, plan[i].key)
  /\ \A i \in DOMAIN execLog :
       execLog[i][1] \in onlyHeadKeys => execLog[i][2] = "head"
  /\ \A proc \in running :
       plan[proc[2]].key \in onlyHeadKeys => proc[3] = "head"
  /\ planReturned => onlyHeadKeys \subseteq planKeys
  /\ returnedNil /\ compared =>
       \A k \in onlyHeadKeys : <<k, "head">> \in Range(execLog)

\* a run that returned nil after executing the head side of a key that is
\* only on head
C2_Witness ==
  /\ returnedNil
  /\ \E k \in onlyHeadKeys :
       /\ <<k, "head">> \in Range(execLog)
       /\ \E i \in DOMAIN plan : plan[i].key = k /\ plan[i].reason = reasonBaseMissing
  /\ bothKeys # {}

\* ------------------------------------------------------------------------
\* C3
\* ------------------------------------------------------------------------
\* C3: for every key present only on base, compareResult completes and yields
\* a plan entry with reason "benchmark does not exist in head" and no head
\* reference.
C3_OnlyBaseIsPlanned ==
  compared =>
    /\ panicAt # compareResultPanic
    /\ \A k \in onlyBaseKeys :
         \E i \in DOMAIN plan :
           /\ plan[i].key = k
           /\ plan[i].reason = reasonHeadMissing
           /\ plan[i].head = 0

\* ------------------------------------------------------------------------
\* C4
\* ------------------------------------------------------------------------
\* first-seen order of the merged key space: head keys in enumeration order,
\* then the keys seen on base only
firstSeen ==
  keySeq(headPackages)
    \o SelectSeq(keySeq(basePackages), LAMBDA k : k \notin headKeys)

expectedPlan ==
  LET ks == SelectSeq(firstSeen, shouldRun)
  IN [i \in DOMAIN ks |-> <<ks[i], expectedReason(ks[i])>>]

planView == [i \in DOMAIN plan |-> <<plan[i].key, plan[i].reason>>]

\* base lists {A}, head lists {A, B}, and the package's hash differs
scenarioAB ==
  /\ tree.base = <<[path |-> "p", tests |-> TRUE, hash |-> "h1", names |-> <<"A">>]>>
  /\ tree.head = <<[path |-> "p", tests |-> TRUE, hash |-> "h2",
                    names |-> <<"A", "B">>]>>

\* C4: the key space of compareResult is in first-seen order (head keys in
\* enumeration order, then keys seen only on base), a returned plan lists
\* the keys to run in that order, a key on both sides with differing hashes
\* has reason "code change", and for base {A}, head {A, B} with differing
\* hashes the plan is [A: code change, B: does not exist in base].
C4_PlanInFirstSeenOrder ==
  /\ compared => keysOf(r) = firstSeen
  /\ planReturned => planView = expectedPlan
  /\ \A i \in DOMAIN plan :
       plan[i].key \in bothKeys => plan[i].reason = reasonCodeChange
  /\ scenarioAB /\ planReturned =>
       planView = << <<(<<"p", "A">>), reasonCodeChange>>,
                     <<(<<"p", "B">>), reasonBaseMissing>> >>

\* the plan of the scenario with base {A} and head {A, B} was returned
C4_Witness ==
  /\ scenarioAB
  /\ pc = "phase2"
  /\ Len(plan) = 2
  /\ plan[1].reason = reasonCodeChange

\* ------------------------------------------------------------------------
\* C5
\* ------------------------------------------------------------------------
\* C5: after the get calls of compareResult the key index maps the keys
\* one-to-one onto the positions 0..len(results)-1, a key seen on both
\* revisions has one entry holding both back-references, and no key occurs
\* twice in the plan.
C5_OneEntryPerKey ==
  /\ compared =>
       /\ DOMAIN r.m = baseKeys \cup headKeys
       /\ \A k \in DOMAIN r.m : r.m[k] \in 0..(Len(r.results) - 1)
       /\ \A k1, k2 \in DOMAIN r.m : r.m[k1] = r.m[k2] => k1 = k2
       /\ \A n \in 0..(Len(r.results) - 1) : \E k \in DOMAIN r.m : r.m[k] = n
       /\ \A k \in DOMAIN r.m :
            LET x == r.results[r.m[k] + 1] IN
              /\ x.head = IF k \in headKeys THEN pkgOf(headPackages, k) ELSE 0
              /\ x.base = IF k \in baseKeys THEN pkgOf(basePackages, k) ELSE 0
  /\ \A i, j \in DOMAIN plan : plan[i].key = plan[j].key => i = j

\* compareResult ran on revisions that share a key and each have a key of
\* their own
C5_Witness ==
  /\ compared
  /\ bothKeys # {}
  /\ onlyHeadKeys # {}
  /\ onlyBaseKeys # {}
  /\ Len(r.results) >= 3

\* ------------------------------------------------------------------------
\* C6
\* ------------------------------------------------------------------------
allTasks == UNION {{s} \X DOMAIN taskPc[s] : s \in Sides}

failedTasks == {t \in allTasks : taskPc[t[1]][t[2]] = "failed"}

C6_State ==
  /\ gErr # None <=> failedTasks # {}
  /\ failedTasks # {} =>
       /\ gCancelled
       /\ ~compared
       /\ plan = <<>>
       /\ execLog = <<>>
       /\ running = {}
       /\ pc \in {"phase1", "cleanup", "done"}
       /\ pc # "phase1" => retErr = gErr

C6_Step ==
  gErr # None =>
    /\ gErr' = gErr
    /\ \A s \in Sides : \A i \in DOMAIN pkgsOf(s) :
         /\ pkgsOf(s)'[i].testBinaryHash = pkgsOf(s)[i].testBinaryHash
         /\ pkgsOf(s)'[i].benchmarkNames = pkgsOf(s)[i].benchmarkNames

\* C6: when compileTest or listBenchmarks fails for a package of either
\* revision, the group keeps the first error and cancels its context, no
\* later task gets a hash or benchmark names, Compare returns that first
\* error, and compareResult and the benchmark executions are never reached.
C6_Phase1FailFast == [] C6_State /\ [][C6_Step]_vars

\* Compare returned the first of two task errors
C6_Witness ==
  /\ pc = "done"
  /\ Cardinality(failedTasks) >= 2
  /\ retErr = gErr
  /\ retErr # None

\* ------------------------------------------------------------------------
\* C7
\* ------------------------------------------------------------------------
\* C7: at every moment of phase 1 at most 4 compile/list tasks are in
\* flight, base and head packages counted together.
C7_AtMostFourInFlight == Cardinality(inFlight) <= 4

\* four tasks of both revisions are in flight and a package is waiting for
\* a free slot
C7_Witness ==
  /\ Cardinality(inFlight) = 4
  /\ launched < numTasks
  /\ \E t1, t2 \in inFlight : t1[1] = "base" /\ t2[1] = "head"

\* ------------------------------------------------------------------------
\* C8
\* ------------------------------------------------------------------------
\* C8: during phase 2 at most one external benchmark process is active, and
\* it is the execution started last: an execution starts only after the
\* previous one has terminated.
C8_OneBenchmarkProcess ==
  /\ Cardinality(running) <= 1
  /\ \A proc \in running : proc[1] = Len(execLog)
  /\ running # {} => pc = "phase2" /\ inFlight = {}

\* a second benchmark execution is active after the first one terminated
C8_Witness ==
  /\ running # {}
  /\ Len(execLog) >= 2

\* ------------------------------------------------------------------------
\* C9
\* ------------------------------------------------------------------------
C9_State ==
  /\ planBuilt <= 1
  /\ (pc \in {"compareResult", "phase2"} \/ compared) =>
       /\ inFlight = {}
       /\ launched = numTasks
       /\ \A t \in allTasks : taskPc[t[1]][t[2]] = "done"
       /\ gErr = None
  /\ pc = "phase2" => planBuilt = 1
  /\ returnedNil => planBuilt = 1

C9_Step ==
  (pc \in {"compareResult", "phase2"} \/ compared) =>
    /\ UNCHANGED pkgVars
    /\ compared => UNCHANGED plan

\* C9: the plan is built exactly once, after every phase-1 task returned
\* without error, and while it is built and during phase 2 no task is in
\* flight and no package's binary path, hash or names change.
C9_PlanBuiltOnceAfterPhase1 == [] C9_State /\ [][C9_Step]_vars

\* phase 2 runs on a plan built from several packages
C9_Witness ==
  /\ pc = "phase2"
  /\ planBuilt = 1
  /\ numTasks >= 3
  /\ plan # <<>>

\* ------------------------------------------------------------------------
\* C10
\* ------------------------------------------------------------------------
reverse(s) == [n \in 1..Len(s) |-> s[Len(s) + 1 - n]]

\* C10: on every exit of Compare (nil, error, panic, cancellation) cleanup
\* has executed the registered actions in reverse order of registration,
\* and an error return or panic leads nowhere but to that cleanup.
C10_CleanupInReverseOrder ==
  /\ pc = "done" => cleaned = reverse(cleanups)
  /\ pc # "done" => cleaned = <<>>
  /\ (retErr # None \/ panicAt # None) => pc \in {"cleanup", "done"}

\* a cancelled run cleaned up three registered actions
C10_Witness ==
  /\ pc = "done"
  /\ ctxDone
  /\ retErr # None
  /\ Len(cleaned) >= 3
  /\ cleaned[1] = cleanups[Len(cleanups)]
  /\ cleaned[Len(cleaned)] = <<"worktree">>

\* ------------------------------------------------------------------------
\* C11
\* ------------------------------------------------------------------------
\* number of calls of action a by cleanup
timesCleaned(a) == Cardinality({n \in DOMAIN cleaned : cleaned[n] = a})

\* the resource of a registered action is still on disk
leftOver(a) ==
  IF a = <<"worktree">> THEN worktree ELSE <<a[2], a[3]>> \in tmpFiles

\* C11: when Compare is over, cancelled or not, cleanup has called every
\* registered action exactly once; the actions that returned an error are all
\* in the joined error, each once, and are the ones whose resource is left;
\* every other action, the base worktree removal included, took effect.
C11_TeardownRunsEveryAction ==
  pc = "done" =>
    /\ Len(cleaned) = Len(cleanups)
    /\ \A n \in DOMAIN cleanups : timesCleaned(cleanups[n]) = 1
    /\ Range(cleanupErr) \subseteq Range(cleaned)
    /\ NoDup(cleanupErr)
    /\ \A a \in Range(cleanups) : leftOver(a) <=> a \in Range(cleanupErr)
    /\ tmpFiles \subseteq {<<a[2], a[3]>> : a \in Range(cleanupErr) \ {<<"worktree">>}}

\* a cancelled run whose first cleanup action returned an error: the later
\* ones were still called and the base worktree was removed
C11_Witness ==
  /\ pc = "done"
  /\ ctxDone
  /\ Len(cleanups) >= 3
  /\ cleanupErr = <<cleaned[1]>>
  /\ cleaned[Len(cleaned)] = <<"worktree">>
  /\ ~worktree
  /\ Cardinality(tmpFiles) = 1

\* ------------------------------------------------------------------------
\* C12
\* ------------------------------------------------------------------------
\* the add calls that returned
addReturned == {i \in DOMAIN addPc : addPc[i] = "returned"}

\* number of entries of the registry holding action a
timesRegistered(a) == Cardinality({n \in DOMAIN cleanups : cleanups[n] = a})

\* every task is past its add call or never made it
addsOver == \A i \in DOMAIN addPc : addPc[i] \in {"returned", "failed"}

\* C12: whatever the interleaving of the in-flight tasks, each add call that
\* returned has exactly one entry in the registry, the earlier registration
\* of the worktree removal is kept, and once all add calls have returned the
\* registry holds one entry per call and nothing else.
C12_NoRegistrationLost ==
  /\ \A i \in addReturned : timesRegistered(binCleanup(i)) = 1
  /\ timesRegistered(<<"worktree">>) = 1
  /\ addsOver =>
       /\ Len(cleanups) = 1 + Cardinality(addReturned)
       /\ Range(cleanups) = {<<"worktree">>} \cup {binCleanup(i) : i \in addReturned}

\* three tasks registered their binary, the last launched one first
C12_Witness ==
  /\ addsOver
  /\ Cardinality(addReturned) = 3
  /\ cleanups[2] = binCleanup(3)
  /\ Len(cleanups) = 4

\* ------------------------------------------------------------------------
\* C13
\* ------------------------------------------------------------------------
\* the last call of runBenchmark returned an error
runFailed == lastRun.err # None

\* Compare left the phase-2 loop
loopLeft == planReturned /\ pc \in {"cleanup", "done"}

\* C13: when a benchmark execution fails, Compare neither panics nor returns
\* an error and that side has no value; Compare leaves the loop only after
\* the last plan entry, returning nil; and no side of an entry is executed
\* twice.
C13_FailedRunIsSkipped ==
  /\ runFailed => panicAt = None /\ retErr = None /\ lastRun.res = <<>>
  /\ loopLeft => planIdx > Len(plan) /\ returnedNil
  /\ NoDup(execLog)

\* ------------------------------------------------------------------------
\* C14
\* ------------------------------------------------------------------------
uploadFailed == lastRun.outcome \in {"cpuUpload", "memUpload"}

\* C14: when an upload fails, runBenchmark returns no error and a
\* measurement that has the totals summed from the profiles read so far and
\* an empty key for the kinds of the profile that was not uploaded, and
\* Compare neither panics nor returns an error.
C14_UploadFailureKeepsTotals ==
  uploadFailed =>
    /\ lastRun.err = None
    /\ lastRun.res # <<>>
    /\ lastRun.res[1].CPU.Total = sumProfiles(cpuProfile, 2, 1)
    /\ lastRun.outcome = "cpuUpload" => lastRun.res[1].CPU.Key = ""
    /\ lastRun.outcome = "memUpload" =>
         /\ lastRun.res[1].AllocObjects.Total = sumProfiles(memProfile, 1, 1)
         /\ lastRun.res[1].AllocSpace.Total = sumProfiles(memProfile, 2, 1)
         /\ lastRun.res[1].AllocObjects.Key = ""
         /\ lastRun.res[1].AllocSpace.Key = ""
    /\ panicAt = None
    /\ retErr = None

\* ------------------------------------------------------------------------
\* C15
\* ------------------------------------------------------------------------
\* the error of a zero-byte binary for task t
emptyErr(t) == <<"test binary is empty", t[1], t[2]>>

hashOf(t) == pkgsOf(t[1])[t[2]].testBinaryHash

C15_State ==
  \A t \in allTasks :
    /\ hashOf(t) # NoHash =>
         /\ tree[t[1]][t[2]].tests
         /\ hashOf(t) = tree[t[1]][t[2]].hash
         /\ pkgsOf(t[1])[t[2]].testBinary # None
         /\ taskPc[t[1]][t[2]] \in {"listBenchmarks", "done", "failed"}
    /\ emptyErr(t) = gErr =>
         /\ hashOf(t) = NoHash
         /\ taskPc[t[1]][t[2]] = "failed"
         /\ ~compared
         /\ pc \in {"phase1", "cleanup", "done"}
         /\ pc # "phase1" => emptyErr(t) = retErr

C15_Step ==
  \A t \in allTasks :
    hashOf(t)' # hashOf(t) =>
      /\ taskPc[t[1]][t[2]] = "compileTest"
      /\ taskPc'[t[1]][t[2]] = "listBenchmarks"
      /\ gErr' = gErr

\* C15: a package's hash is set only in the step in which its compileTest
\* returns nil, and it is then the hash of the compiled, non-empty binary; a
\* zero-byte binary makes the task fail with "test binary is empty", leaves
\* the hash unset, and Compare returns that error without building a plan.
C15_HashOnlyFromNonEmptyBinary == [] C15_State /\ [][C15_Step]_vars

\* Compare returned the error of a zero-byte binary while another package
\* had been compiled and hashed
C15_Witness ==
  /\ pc = "done"
  /\ \E t \in allTasks : emptyErr(t) = retErr /\ hashOf(t) = NoHash
  /\ \E t \in allTasks : hashOf(t) # NoHash

\* ------------------------------------------------------------------------
\* C16
\* ------------------------------------------------------------------------
earlyErrs ==
  {"error checking prerequisites", "error resolving base git rev",
   "error resolving head git rev"}

\* Compare returned one of the errors of the first three steps
failedEarly == \E e \in earlyErrs : retErr = e

\* no step after the revision resolution has had any effect
nothingDone ==
  /\ ~worktree
  /\ cleanups = <<>>
  /\ basePackages = <<>>
  /\ headPackages = <<>>
  /\ launched = 0
  /\ allTasks = {}
  /\ tmpFiles = {}
  /\ ~compared
  /\ plan = <<>>
  /\ execLog = <<>>
  /\ running = {}

\* C16: when a required tool is missing or the base or head revision is not
\* resolved, Compare returns the error of that step and nothing else is
\* done: no base worktree, no package discovered or compiled, no benchmark
\* run; the steps after the resolution run only with both revisions resolved.
C16_EarlyFailureStopsRun ==
  /\ failedEarly => nothingDone /\ pc \in {"cleanup", "done"} /\ panicAt = None
  /\ (baseCommit = "" \/ headCommit = "") =>
       /\ nothingDone
       /\ pc \in {"prerequisites", "gitRevParseBase", "gitRevParseHead",
                   "cleanup", "done"}
       /\ pc \in {"cleanup", "done"} => retErr # None
  /\ retErr = "error resolving head git rev" => baseCommit = "basesha"

\* Compare returned after the head revision could not be resolved
C16_Witness ==
  /\ pc = "done"
  /\ retErr = "error resolving head git rev"
  /\ baseCommit = "basesha"
  /\ headCommit = ""
  /\ cleaned = <<>>

\* ------------------------------------------------------------------------
\* C17
\* ------------------------------------------------------------------------
RECURSIVE flat(_)
\* the plan entries of all groups in plan order
flat(groups) ==
  IF groups = <<>> THEN <<>> ELSE Head(groups) \o flat(Tail(groups))

\* the entries addResult was called on
measuredEntries == {e \in Range(flat(benchGroups)) : e.results # <<>>}

\* number of results of entry e for a resource name
timesListed(e, name) ==
  Cardinality({n \in DOMAIN e.results : e.results[n].Name = name})

\* C17: after any sequence of addResult calls on a plan entry, its result
\* list holds exactly one BenchmarkResult for each of cpu, alloc_space and
\* alloc_objects.
C17_OneResultPerKind ==
  \A e \in measuredEntries :
    /\ Len(e.results) = 3
    /\ \A name \in ResourceNames : timesListed(e, name) = 1

\* ------------------------------------------------------------------------
\* C18
\* ------------------------------------------------------------------------
\* the resource names of the results of entry e, in order
namesOf(e) == [n \in DOMAIN e.results |-> e.results[n].Name]

\* C18: the order of an entry's results is determined by the set of their
\* resource names: two result lists over the same names list them in the
\* same order.
C18_OrderDependsOnNamesOnly ==
  \A e1, e2 \in measuredEntries :
    Range(namesOf(e1)) = Range(namesOf(e2)) /\ Len(e1.results) = Len(e2.results)
      => namesOf(e1) = namesOf(e2)

\* ------------------------------------------------------------------------
\* C19
\* ------------------------------------------------------------------------
\* the run name of the keys of the plan entries
expectedName(key) ==
  IF key = <<"p", "A">> THEN "p.A"
  ELSE IF key = <<"q", "B">> THEN "q.B"
  ELSE "?"

\* C19: a generated report carries the base and head commit ids and one run
\* per plan entry, in plan order, named importPath.benchmarkName, entries
\* without a measurement included; when generated, its runs hold the
\* results the entries have at that moment.
C19_ReportIsCompleteSnapshot ==
  report # <<>> =>
    LET rep == report[1]
        entries == flat(benchGroups)
    IN /\ rep.BaseRef = baseCommit
       /\ rep.HeadRef = headCommit
       /\ Len(rep.Runs) = Len(entries)
       /\ \A n \in DOMAIN entries :
            /\ rep.Runs[n].Name = expectedName(entries[n].key)
            /\ pc = "addResult" => rep.Runs[n].Results = entries[n].results

\* a report of two plan entries, the second measured and the first not
C19_Witness ==
  /\ report # <<>>
  /\ pc = "addResult"
  /\ Len(report[1].Runs) = 2
  /\ report[1].Runs[1].Name = "q.B"
  /\ report[1].Runs[1].Results = <<>>
  /\ report[1].Runs[2].Name = "p.A"
  /\ Len(report[1].Runs[2].Results) = 3

\* ------------------------------------------------------------------------
\* C20
\* ------------------------------------------------------------------------
\* a step in which a benchmark process ended: one measurement was made
measurementEnded == running' # running /\ running' \subseteq running

\* C20: phase 2 sends an updated BenchmarkReport to the reporters after
\* every individual measurement.
C20_ReportAfterEveryMeasurement ==
  [][measurementEnded => ch' # <<>> /\ ch' # ch]_vars

\* ------------------------------------------------------------------------
\* C21
\* ------------------------------------------------------------------------
\* the last call of postComment
lastPost == posts[Len(posts)]

\* post n was rendered with gh.finished set
finishedPost(n) == posts[n].data.Finished

C21_State ==
  /\ \A i, j \in DOMAIN posts : i < j /\ finishedPost(i) => finishedPost(j)
  /\ stopCh /\ runPc # "done" => Len(posts) = received
  /\ runPc = "done" =>
       /\ Len(posts) = received + 1
       /\ finishedPost(Len(posts))
       /\ lastPost.data.Report = lastReport
       /\ lastPost.body = render(TRUE, lastReport)
       /\ sentLog # <<>> => lastReport = <<sentLog[Len(sentLog)]>>
       /\ \A n \in 1..received : ~finishedPost(n)

C21_Step == stopCh => received' = received /\ Len(posts') <= Len(posts) + 1

sendPending == ch # <<>>

\* C22: with the no-op reporter attached to the channel every send of a
\* report is eventually received, also after Stop was called on the
\* reporter: the producer never blocks for ever.
C22_NoopAlwaysReceives == [](sendPending => <>(~sendPending))

\* a send made after Stop was called on the no-op reporter, earlier sends
\* having been received
C22_Witness ==
  /\ runPc = "range"
  /\ stopCh
  /\ sendPending
  /\ received >= 1
  /\ received = Len(sentLog) - 1

\* ------------------------------------------------------------------------
\* C23
\* ------------------------------------------------------------------------
\* a post before post n returned an error
failedBefore(n) == \E i \in 1..(n - 1) : posts[i].err

\* C23: an error of creating or editing the comment does not end the
\* comment reporter: run returns through Stop only, every report received,
\* also after a failed post, is rendered and posted in the order sent, and
\* the post rendered with finished set is made when Stop is called.
C23_PostFailureDoesNotAbort ==
  /\ runPc = "done" => stopCh
  /\ Len(posts) >= received
  /\ \A n \in 1..received :
       /\ posts[n].data.Report = <<sentLog[n]>>
       /\ posts[n].body = render(FALSE, <<sentLog[n]>>)
  /\ pc = "stopped" =>
       /\ received = Len(sentLog)
       /\ Len(posts) = received + 1
       /\ finishedPost(Len(posts))

\* Stop returned after the first post failed: the second report was posted
\* and so was the last one with finished set
C23_Witness ==
  /\ pc = "stopped"
  /\ Len(sentLog) = 2
  /\ Len(posts) = 3
  /\ posts[1].err
  /\ failedBefore(2)
  /\ posts[2].data.Report = <<sentLog[2]>>
  /\ posts[3].data.Finished

\* ------------------------------------------------------------------------
\* C24
\* ------------------------------------------------------------------------
\* the row of cellIn was rendered
rowRendered == cellOut # <<>>

baseKeyOf(res) == res.BaseValue.FlamegraphKey

headKeyOf(res) == res.HeadValue.FlamegraphKey

unavailable(cell) == cell = <<"n/a">>

\* C24 as stated: when either side's shareable key is empty, the base cell,
\* the head cell and the diff cell all render as n/a.
C24_AllCellsUnavailable ==
  rowRendered /\ (baseKeyOf(cellIn[1]) = "" \/ headKeyOf(cellIn[1]) = "") =>
    /\ unavailable(cellOut[1].base)
    /\ unavailable(cellOut[1].head)
    /\ unavailable(cellOut[1].diff)

\* C24 amended: the value cell of a side renders as n/a exactly when that
\* side's key is empty, and else shows that side's total and key; the diff
\* cell renders as n/a exactly when either key is empty; the totals play
\* no part.
C24_CellUnavailableWithoutKey ==
  rowRendered =>
    LET res == cellIn[1]
        out == cellOut[1]
    IN /\ unavailable(out.base) <=> baseKeyOf(res) = ""
       /\ unavailable(out.head) <=> headKeyOf(res) = ""
       /\ unavailable(out.diff) <=> (baseKeyOf(res) = "" \/ headKeyOf(res) = "")
       /\ baseKeyOf(res) # "" =>
            /\ out.base[2][2] = res.BaseValue.ProfileValue
            /\ out.base[3] = baseKeyOf(res)
       /\ headKeyOf(res) # "" =>
            /\ out.head[2][2] = res.HeadValue.ProfileValue
            /\ out.head[3] = headKeyOf(res)

\* a row whose base side has totals but no key, the head side having both
C24_Witness ==
  /\ rowRendered
  /\ baseKeyOf(cellIn[1]) = ""
  /\ cellIn[1].BaseValue.ProfileValue = 100
  /\ headKeyOf(cellIn[1]) = "k-head"
  /\ cellIn[1].HeadValue.ProfileValue = 200
  /\ unavailable(cellOut[1].base)
  /\ ~unavailable(cellOut[1].head)
  /\ unavailable(cellOut[1].diff)

\* ------------------------------------------------------------------------
\* C28
\* ------------------------------------------------------------------------
\* the number shown by a diff cell that is a link
shownPercent == cellOut[1].diff[2]

\* C28: with both keys non-empty (and a base total that is not zero) the
\* diff cell shows (head - base) / base * 100 cut to two decimals: its
\* sign is that of head - base, and integer part and decimals are the
\* largest number of hundredths not above the quotient; base 10,000,000
\* and head 20,000,000 give 100, base 2048*1024 and head 2047*1024 give
\* -0.04.
C28_DiffIsPercentOfBase ==
  rowRendered /\ baseKeyOf(cellIn[1]) # "" /\ headKeyOf(cellIn[1]) # ""
    /\ cellIn[1].BaseValue.ProfileValue # 0 =>
    LET base == cellIn[1].BaseValue.ProfileValue
        head == cellIn[1].HeadValue.ProfileValue
        num == abs(head - base) * 100
        p == shownPercent
    IN /\ cellOut[1].diff[3] = baseKeyOf(cellIn[1])
       /\ cellOut[1].diff[4] = headKeyOf(cellIn[1])
       /\ p.finite
       /\ p.neg <=> head < base
       /\ p.frac \in 0..99
       /\ p.whole * base <= num /\ num < (p.whole + 1) * base
       /\ p.frac * base <= (num - p.whole * base) * 100
       /\ (num - p.whole * base) * 100 < (p.frac + 1) * base
       /\ base = 10000000 /\ head = 20000000 =>
            ~p.neg /\ p.whole = 100 /\ p.frac = 0
       /\ base = 2048 * 1024 /\ head = 2047 * 1024 =>
            p.neg /\ p.whole = 0 /\ p.frac = 4

\* the allocation row of the test: -0.04 %
C28_Witness ==
  /\ rowRendered
  /\ baseKeyOf(cellIn[1]) # ""
  /\ headKeyOf(cellIn[1]) # ""
  /\ cellIn[1].BaseValue.ProfileValue = 2048 * 1024
  /\ cellIn[1].HeadValue.ProfileValue = 2047 * 1024
  /\ shownPercent.neg
  /\ shownPercent.whole = 0
  /\ shownPercent.frac = 4

\* ------------------------------------------------------------------------
\* C25
\* ------------------------------------------------------------------------
\* a step in which render was called
renderCalled == Len(rendered') > Len(rendered)

C25_State == \A i, j \in DOMAIN rendered : rendered[i] = rendered[j]

C25_Step ==
  renderCalled => UNCHANGED <<report, finished, commentID, reacted, lastReport>>

headerLine == <<"### Benchmark Report">>

\* the progress marker of a rendering made with gh.finished = fin
markerLine(fin) == IF fin THEN <<"__Finished__">> ELSE <<"__In progress__">>

\* the report handed to render has no runs
zeroRuns == report # <<>> /\ report[1].Runs = <<>>

\* C26: rendering a report with zero runs gives the header and the progress
\* marker and nothing else: no details block and no row.
C26_ZeroRunsIsHeaderAndMarker ==
  zeroRuns =>
    \A n \in DOMAIN rendered : rendered[n] = <<headerLine, markerLine(finished)>>

\* ------------------------------------------------------------------------
\* C27
\* ------------------------------------------------------------------------
\* the positions of the lines of out that open a details block
detailsIn(out) == {k \in DOMAIN out : out[k] = <<"<details>">>}

\* the table rows of out
rowsIn(out) == SelectSeq(out, LAMBDA line : Len(line) = 5)

RECURSIVE resultNames(_, _)
\* the names of the results of the runs from run i on, in order
resultNames(runs, i) ==
  IF i > Len(runs) THEN <<>>
  ELSE [k \in DOMAIN runs[i].Results |-> runs[i].Results[k].Name]
         \o resultNames(runs, i + 1)

\* C27: rendering an in-progress report gives the header, the in-progress
\* marker and the base -> head line, then one details block per run and
\* one table row per result, in the order of the report.
C27_InProgressReportIsComplete ==
  report # <<>> /\ ~finished =>
    \A n \in DOMAIN rendered :
      LET out == rendered[n]
          rows == rowsIn(out)
      IN /\ Len(out) >= 3
         /\ out[1] = headerLine
         /\ out[2] = markerLine(FALSE)
         /\ Cardinality(detailsIn(out)) = Len(report[1].Runs)
         /\ [k \in DOMAIN rows |-> rows[k][2]] = resultNames(report[1].Runs, 1)

\* ------------------------------------------------------------------------
\* C29
\* ------------------------------------------------------------------------
\* the packages of a side that have no test files
untested(side) == {i \in DOMAIN pkgsOf(side) : ~pkgsOf(side)[i].tests}

\* C29: a package without test files is skipped without error: its task
\* never fails and never lists, it has no binary, no hash and no benchmark
\* names, no temporary file and no removal registered, and no merged key
\* and no plan entry refers to it.
C29_UntestedPackageIsSkipped ==
  \A side \in Sides : \A i \in untested(side) :
    LET p == pkgsOf(side)[i] IN
      /\ p.testBinary = None
      /\ p.testBinaryHash = NoHash
      /\ p.benchmarkNames = <<>>
      /\ i \in DOMAIN taskPc[side] =>
           taskPc[side][i] \in {"new", "compileTest", "done"}
      /\ <<side, i>> \notin tmpFiles
      /\ <<"bin", side, i>> \notin Range(cleanups)
      /\ \A n \in DOMAIN r.results : sideRef(r.results[n], side) # i
      /\ \A n \in DOMAIN plan : sideRef(plan[n], side) # i

\* the plan was built from a base package without test files, whose task
\* returned nil, and a head package of the same path with benchmarks
C29_Witness ==
  /\ pc = "phase2"
  /\ 1 \in untested("base")
  /\ taskPc["base"][1] = "done"
  /\ Len(plan) >= 1
  /\ plan[1].key[1] = basePackages[1].path
  /\ plan[1].base = 0
  /\ plan[1].head # 0

\* ------------------------------------------------------------------------
\* C30
\* ------------------------------------------------------------------------
\* the temporary binaries compileTest created
createdBins ==
  {<<side, i>> \in UNION {{s} \X DOMAIN pkgsOf(s) : s \in Sides} :
     pkgsOf(side)[i].testBinary # None}

\* the position of the call of action a in the teardown
cleanedAt(a) == CHOOSE n \in DOMAIN cleaned : cleaned[n] = a

\* C30: every temporary binary compileTest created has its removal
\* registered, and when Compare is over, on every exit path, the removal
\* was called once, before the removal of the base worktree; the only
\* binaries left are those whose os.Remove returned an error.
C30_BinariesRemovedAtTeardown ==
  /\ tmpFiles \subseteq createdBins
  /\ \A b \in createdBins : <<"bin", b[1], b[2]>> \in Range(cleanups)
  /\ pc = "done" =>
       \A b \in createdBins :
         LET a == <<"bin", b[1], b[2]>> IN
           /\ timesCleaned(a) = 1
           /\ b \in tmpFiles => a \in Range(cleanupErr)
           /\ timesCleaned(<<"worktree">>) = 1
           /\ cleanedAt(a) < cleanedAt(<<"worktree">>)

\* a run that failed in the compilation of a package and ended with that
\* package's binary and the worktree removed
C30_Witness ==
  /\ pc = "done"
  /\ retErr # None
  /\ \E b \in createdBins :
       /\ taskPc[b[1]][b[2]] = "failed"
       /\ pkgsOf(b[1])[b[2]].testBinaryHash = NoHash
       /\ b \notin tmpFiles
       /\ cleanedAt(<<"bin", b[1], b[2]>>) < cleanedAt(<<"worktree">>)
  /\ ~worktree

\* ------------------------------------------------------------------------
\* C31: the sub-profile names of either naming convention fill the keys
\* ------------------------------------------------------------------------
\* the fields of benchmarkResult that hold a profileResult
ResourceKinds == {"AllocObjects", "AllocSpace", "CPU"}

\* the names each kind went by: allocs / bytes and alloc_objects /
\* alloc_space, with cpu in both conventions
aliases(kind) ==
  IF kind = "AllocObjects" THEN {"allocs", "alloc_objects"}
  ELSE IF kind = "AllocSpace" THEN {"bytes", "alloc_space"}
  ELSE {"cpu"}

\* the keys a response gives for a kind under any of its names
keysFor(kind) ==
  {subProfiles[1][i].Key :
     i \in {j \in DOMAIN subProfiles[1] : subProfiles[1][j].Name \in aliases(kind)}}

\* C31: once the sub-profiles of a response were mapped, every kind the
\* response names, under either naming convention, carries one of the keys
\* the response gave for it.
C31_EitherConventionFillsKeys ==
  keyed # <<>> =>
    \A kind \in ResourceKinds :
      keysFor(kind) # {} => keyed[1][kind].Key \in keysFor(kind)

\* ------------------------------------------------------------------------
\* C32: a run whose external steps all succeed returns nil
\* ------------------------------------------------------------------------
\* no tool, git command, compilation, listing, benchmark run, upload or
\* cleanup action failed and the context was not cancelled
noStepFailed ==
  /\ ~ctxDone
  /\ retErr = None
  /\ gErr = None
  /\ failedTasks = {}
  /\ lastRun.err = None
  /\ cleanupErr = <<>>

\* C32: when Compare is over and no external step failed, it returned nil
\* without a panic, every task of phase 1 returned nil, the phase-2 loop
\* went through the whole plan and cleanup called every registered action.
C32_SuccessfulRunCompletes ==
  (pc = "done" /\ noStepFailed) =>
    /\ panicAt = None
    /\ \A t \in allTasks : taskPc[t[1]][t[2]] = "done"
    /\ compared
    /\ planIdx > Len(plan)
    /\ Len(cleaned) = Len(cleanups)

\* ------------------------------------------------------------------------
\* C33: a generated report does not change afterwards
\* ------------------------------------------------------------------------
\* C33: whatever addResult calls follow, the holder of the last generated
\* report reads in it the runs and result values it was generated with.
C33_ReportIsImmutable == seen = report

\* ------------------------------------------------------------------------
\* C34: one comment per reporter
\* ------------------------------------------------------------------------
\* post n created a comment: CreateComment was called and succeeded
created(n) == ~posts[n].edit /\ ~posts[n].err

creations == {n \in DOMAIN posts : created(n)}

reactions == {n \in DOMAIN posts : posts[n].react}

\* C34 as stated: the first post creates the comment and records its id,
\* every later post edits that comment, and the reaction is added at most
\* once.
C34_FirstPostCreates ==
  /\ Cardinality(creations) <= 1
  /\ posts # <<>> => created(1) /\ commentID = NewCommentID
  /\ \A n \in DOMAIN posts : n > 1 => posts[n].edit /\ posts[n].id = NewCommentID
  /\ Cardinality(reactions) <= 1

\* C34, amended: at most one comment is created over the lifetime of the
\* reporter; a post calls CreateComment as long as no earlier post created
\* the comment, the post whose creation succeeds records the id, and every
\* later post, the finished one included, edits that comment; only the
\* first post goes through the reaction.
C34_AtMostOneCommentCreated ==
  /\ Cardinality(creations) <= 1
  /\ commentID = (IF creations = {} THEN 0 ELSE NewCommentID)
  /\ \A n \in DOMAIN posts :
       /\ posts[n].edit <=> \E m \in creations : m < n
       /\ posts[n].edit => posts[n].id = NewCommentID
       /\ posts[n].react <=> n = 1
  /\ reacted <=> posts # <<>>

\* Stop returned; the first post failed to create the comment, the second
\* created it and the finished one edited it
C34_Witness ==
  /\ pc = "stopped"
  /\ Len(posts) = 3
  /\ posts[1].err /\ ~posts[1].edit
  /\ created(2)
  /\ posts[3].edit /\ posts[3].data.Finished

\* ------------------------------------------------------------------------
\* C35: Stop waits for the final post
\* ------------------------------------------------------------------------
\* Stop returned to its caller
stopReturned == pc = "stopped"

C35_State ==
  /\ stopCh => received = Len(sentLog)
  /\ stopReturned =>
       /\ runPc = "done"
       /\ Len(posts) = Len(sentLog) + 1
       /\ \A n \in 1..Len(sentLog) :
            /\ posts[n].data.Report = <<sentLog[n]>>
            /\ ~finishedPost(n)
       /\ finishedPost(Len(posts))

C35_Step ==
  /\ stopReturned' /\ ~stopReturned => runPc = "done" /\ finishedPost(Len(posts))
  /\ stopReturned => posts' = posts /\ stopReturned'

\* C35: Stop returns only once run made the post rendered with finished set
\* and returned; by then every report sent before Stop was called has been
\* posted, one post per report in the order sent, before the finished post,
\* and no post is made after Stop returned.
C35_StopWaitsForFinalPost == []C35_State /\ [][C35_Step]_vars

\* Stop returned after three reports: four posts, the last one finished
C35_Witness ==
  /\ stopReturned
  /\ Len(sentLog) = 3
  /\ Len(posts) = 4
  /\ \A n \in 1..4 : ~posts[n].err
  /\ posts[4].edit

\* ------------------------------------------------------------------------
\* C37: parseCommandLine does not crash
\* ------------------------------------------------------------------------
\* C37: for every comment body parseCommandLine returns a list of
\* arguments or an error and does not panic, also when the first field
\* after the bot name is count=... or time=...
C37_ParseNeverCrashes ==
  parsed # <<>> =>
    /\ ~parsed[1].panic
    /\ parsed[1].err # None => parsed[1].result = <<>>

\* ------------------------------------------------------------------------
\* C38: what parseCommandLine yields
\* ------------------------------------------------------------------------
\* the fields after the bot name on the lines that have it, line by line
commandLines ==
  LET lines == scanLines(stdin[1].words, <<>>)
      withBot == SelectSeq(lines, LAMBDA l : botIndex(l) # 0)
  IN [n \in DOMAIN withBot |->
        SubSeq(withBot[n], botIndex(withBot[n]) + 1, Len(withBot[n]))]

\* the positions of the fields without "=" in order
regexPositions(fields) ==
  SelectSeq([p \in DOMAIN fields |-> p], LAMBDA p : ~fields[p].eq)

\* the positions of the key= options that follow the field at p up to the
\* next field without "="
followers(fields, p, key) ==
  {q \in DOMAIN fields :
     /\ q > p
     /\ fields[q].eq /\ fields[q].name = key
     /\ \A m \in (p + 1)..(q - 1) : fields[m].eq}

\* the last of them
lastFollower(fields, p, key) ==
  CHOOSE q \in followers(fields, p, key) :
    \A m \in followers(fields, p, key) : m <= q

\* the BenchmarkArg for the field at p with the options that follow it
expectedArg(fields, p) ==
  [Regex |-> fields[p].name,
   Count |-> IF followers(fields, p, "count") = {} THEN <<>>
             ELSE <<Atoi(fields[lastFollower(fields, p, "count")].rest).n>>,
   Time |-> IF followers(fields, p, "time") = {} THEN <<>>
            ELSE <<fields[lastFollower(fields, p, "time")].rest>>]

RECURSIVE expectedArgs(_, _)
\* one BenchmarkArg per field without "=", over the lines from line n on
expectedArgs(cls, n) ==
  IF n > Len(cls) THEN <<>>
  ELSE [k \in DOMAIN regexPositions(cls[n]) |->
          expectedArg(cls[n], regexPositions(cls[n])[k])]
       \o expectedArgs(cls, n + 1)

\* a count= option after the bot name has a value that is not a number
badCount ==
  \E n \in DOMAIN commandLines : \E q \in DOMAIN commandLines[n] :
    /\ commandLines[n][q].eq /\ commandLines[n][q].name = "count"
    /\ Atoi(commandLines[n][q].rest).err

\* C38: for a body that is read to its end, parseCommandLine ignores the
\* lines without the bot name and returns one BenchmarkArg per field
\* without "=" after the bot name, in order, each with the last count= and
\* time= that follow it up to the next such field; with a non-numeric
\* count= it returns an error and no result.
C38_OneArgPerRegexField ==
  (parsed # <<>> /\ ~stdin[1].readErr) =>
    IF badCount
    THEN parsed[1] = parseEnd(<<>>, "failed to parse count", FALSE)
    ELSE parsed[1] = parseEnd(expectedArgs(commandLines, 1), None, FALSE)

\* ------------------------------------------------------------------------
\* C36: the gates of the comment hook
\* ------------------------------------------------------------------------
eventGate == hookArgs[1].ghContext.EventName = "issue_comment"

actionGate == hookArgs[1].ghContext.Action = "created"

associationGate ==
  ToLower(hookArgs[1].ghContext.AuthorAssociation)
    \in hookArgs[1].args.AllowedAssociations

\* the hook read the comment body or contacted GitHub
actedOnComment == \E n \in DOMAIN hookLog : hookLog[n][1] = "call"

\* the error of the first gate that does not pass
gateError ==
  IF ~eventGate THEN "unsupported event_name"
  ELSE IF ~actionGate THEN "unsupported action"
  ELSE "author association is not allowed"

\* C36: the comment hook parses the comment, and goes on to GitHub, only
\* when the event name is issue_comment, the action is created and the
\* lower-cased author association is in the allowed list; otherwise all it
\* does is return the error of the first gate that fails.
C36_GatesBeforeParsing ==
  hookLog # <<>> =>
    /\ actedOnComment => eventGate /\ actionGate /\ associationGate
    /\ ~(eventGate /\ actionGate /\ associationGate) =>
         hookLog = <<return(gateError)>>
    /\ hookLog[1] = call("parseCommandLine")
         <=> eventGate /\ actionGate /\ associationGate

\* a created issue comment with a command from an author who is not
\* allowed: the hook returned the error and did nothing else
C36_Witness ==
  /\ hookLog = <<return("author association is not allowed")>>
  /\ eventGate
  /\ actionGate
  /\ hookArgs[1].ghContext.AuthorAssociation = "NONE"
  /\ botIndex(stdin[1].words) # 0

\* ------------------------------------------------------------------------
\* C39: order inside phase 1 and phase 2
\* ------------------------------------------------------------------------
\* the package of task t
taskPkg(t) == pkgsOf(t[1])[t[2]]

\* compileTest of task t returned nil on a package with test files
compiledOk(t) ==
  /\ ~hasNoTests(taskPkg(t))
  /\ taskPkg(t).testBinary # None
  /\ taskPkg(t).testBinaryHash # NoHash

\* the position in the plan of the entry with a key
planPos(key) == CHOOSE n \in DOMAIN plan : plan[n].key = key

\* execution x comes before execution y in the order of the phase-2 loop
loopBefore(x, y) ==
  \/ planPos(x[1]) < planPos(y[1])
  \/ planPos(x[1]) = planPos(y[1]) /\ x[2] = "base" /\ y[2] = "head"

C39_State ==
  /\ \A t \in allTasks :
       /\ taskPc[t[1]][t[2]] = "listBenchmarks" => compiledOk(t)
       /\ taskPkg(t).benchmarkNames # <<>> => compiledOk(t)
       /\ (~hasNoTests(taskPkg(t)) /\ taskPkg(t).testBinary = None) =>
            \A done \in BOOLEAN :
              \A o \in listOutcomes(tree[t[1]][t[2]].names) :
                listBenchmarks(taskPkg(t), done, o, t) =
                  [err |-> "test binary not compiled", started |-> FALSE,
                   names |-> taskPkg(t).benchmarkNames]
  /\ \A n \in DOMAIN execLog :
       /\ \E k \in DOMAIN plan :
            plan[k].key = execLog[n][1] /\ sideRef(plan[k], execLog[n][2]) # 0
       /\ \A m \in DOMAIN execLog : n < m => loopBefore(execLog[n], execLog[m])

C39_Step ==
  \A t \in allTasks \cap allTasks' :
    (taskPc'[t[1]][t[2]] = "listBenchmarks" /\ taskPc[t[1]][t[2]] # "listBenchmarks")
      => taskPc[t[1]][t[2]] = "compileTest"

\* C39: in phase 1 a task comes to listBenchmarks only from a compileTest
\* that returned nil on the same package, and listBenchmarks on a package
\* with test files whose testBinary is unset returns "test binary not
\* compiled" without starting a process; in phase 2 the executions follow
\* the plan, entry by entry, the base side of an entry before its head side.
C39_CompileBeforeListBaseBeforeHead == []C39_State /\ [][C39_Step]_vars

\* both sides of a plan entry were executed, base first, and the second
\* execution has ended
C39_Witness ==
  /\ Len(execLog) = 2
  /\ execLog[1][1] = execLog[2][1]
  /\ execLog[1][2] = "base"
  /\ execLog[2][2] = "head"
  /\ running = {}
  /\ \A t \in allTasks : ~hasNoTests(taskPkg(t)) => compiledOk(t)

====
